---------------------------- MODULE Spec2Model ----------------------------
(***************************************************************************)
(* Tilemapper: the natural sorter (src/smartsorter.ts), the path walker    *)
(* (src/filewalker.ts) and the layout engine (src/layouts.ts).             *)
(*                                                                         *)
(* Strings are sequences of one-character strings, so that segmentation,   *)
(* lower-casing, Number() and the UTF-16 order of the code are computed    *)
(* and not assumed.                                                        *)
(***************************************************************************)
EXTENDS Integers, Sequences, FiniteSets, TLC

VARIABLES
    \* ---- one SmartSorter instance and its last call
    segmentListCache,   \* SmartSorter.segmentListCache: string -> Segment[]
    sortCall,           \* the last compare / sortInPlace call and what it returned
    \* ---- one layout call
    inputPathInfos,     \* the PathInfo[] handed to the layout function
    layoutCall,         \* the layout call made on inputPathInfos (or Null)
    layout,             \* what it returned (or Null)
    \* ---- one walkPaths call
    fsTree,             \* the directory tree on disk
    walkArgs,           \* [paths, extensions] of the call
    walkPc,             \* per walkPath invocation: where it is suspended
    walked,             \* per walkPath invocation: its walkedFilePaths so far
    filePaths,          \* walkPaths' aggregated filePaths
    walkResult,         \* the PathInfo[] walkPaths returned (or Null)
    \* ---- one composite call
    compositeArgs,      \* the arguments of the call
    promises,           \* the generateOverlay calls that have not completed
    overlays,           \* composite's overlays array
    compositeResult,    \* how the call ended: [data, info] or an error
    rejectedOverlays,   \* the generateOverlay calls that failed
    outputFiles,        \* the files the CLI has written after the call
    \* ---- one layoutList call, row by row
    listLoop,           \* the call's arguments and locals, and where it is
    \* ---- one readSequences call of the earlier src/sequence.ts
    seqTree,            \* the directory tree on disk
    seqPc,              \* per file or directory: where its promise is suspended
    seqImages,          \* per directory: sequence.images so far
    sequenceList,       \* the sequences array
    sequencesReturned   \* whether readSequences has returned it

sortVars   == <<segmentListCache, sortCall>>
layoutVars == <<inputPathInfos, layoutCall, layout>>
walkVars   == <<fsTree, walkArgs, walkPc, walked, filePaths, walkResult>>
compositeVars == <<compositeArgs, promises, overlays, compositeResult,
                   rejectedOverlays, outputFiles>>
listVars   == <<listLoop>>
sequenceVars == <<seqTree, seqPc, seqImages, sequenceList, sequencesReturned>>
vars       == <<segmentListCache, sortCall, inputPathInfos, layoutCall, layout,
                fsTree, walkArgs, walkPc, walked, filePaths, walkResult,
                compositeArgs, promises, overlays, compositeResult,
                rejectedOverlays, outputFiles, listLoop,
                seqTree, seqPc, seqImages, sequenceList, sequencesReturned>>

\* null and undefined: the empty list.  No string of the program that may
\* be null is empty, and where the code tests truthiness the empty string
\* and null fall together as they do here.
Null == <<>>
NaN  == "NaN"

(***************************************************************************)
(* Characters and strings                                                  *)
(***************************************************************************)
LowerChars == <<"a","b","c","d","e","f","g","h","i","j","k","l","m",
                "n","o","p","q","r","s","t","u","v","w","x","y","z">>
UpperChars == <<"A","B","C","D","E","F","G","H","I","J","K","L","M",
                "N","O","P","Q","R","S","T","U","V","W","X","Y","Z">>
DigitChars == <<"0","1","2","3","4","5","6","7","8","9">>

Range(s) == {s[i] : i \in DOMAIN s}
IndexOf(s, c) == CHOOSE i \in DOMAIN s : s[i] = c

\* The UTF-16 code unit of a character (String.prototype.charCodeAt).
charCodeAt(c) ==
    IF c \in Range(LowerChars) THEN 96 + IndexOf(LowerChars, c)
    ELSE IF c \in Range(UpperChars) THEN 64 + IndexOf(UpperChars, c)
    ELSE IF c \in Range(DigitChars) THEN 47 + IndexOf(DigitChars, c)
    ELSE CASE c = "-" -> 45
           [] c = "." -> 46
           [] c = "/" -> 47
           [] c = "_" -> 95
           [] c = " " -> 32

\* String.prototype.toLowerCase, one character.
charToLowerCase(c) ==
    IF c \in Range(UpperChars) THEN LowerChars[IndexOf(UpperChars, c)] ELSE c

toLowerCase(str) == [i \in DOMAIN str |-> charToLowerCase(str[i])]

\* The relational operators of the code on two strings: code units, left to right.
RECURSIVE StrLess(_, _)
StrLess(a, b) ==
    IF b = <<>> THEN FALSE
    ELSE IF a = <<>> THEN TRUE
    ELSE IF charCodeAt(a[1]) # charCodeAt(b[1])
         THEN charCodeAt(a[1]) < charCodeAt(b[1])
         ELSE StrLess(Tail(a), Tail(b))

IsDigit(c) == c \in Range(DigitChars)

AllDigits(str) == str # <<>> /\ \A i \in DOMAIN str : IsDigit(str[i])

\* The value of a run of decimal digits.
RECURSIVE DigitsValue(_)
DigitsValue(ds) ==
    IF ds = <<>> THEN 0
    ELSE 10 * DigitsValue(SubSeq(ds, 1, Len(ds) - 1)) + (charCodeAt(ds[Len(ds)]) - 48)

\* Number(str) on the strings this development draws (names made of letters,
\* digits, ".", "_", "-"): a non-empty run of digits is its value, every
\* other non-empty string is NaN.  Signs, fractions, exponents and radix
\* prefixes do not occur among them.
Number(str) == IF AllDigits(str) THEN DigitsValue(str) ELSE NaN

\* Number(str) is NaN (n !== n).
NumberIsNaN(str) == ~AllDigits(str)

\* String(n) for a non-negative integer.
RECURSIVE NumberToString(_)
NumberToString(n) ==
    IF n < 10 THEN <<DigitChars[n + 1]>>
    ELSE Append(NumberToString(n \div 10), DigitChars[(n % 10) + 1])

RECURSIVE join(_, _)
join(strs, sep) ==
    IF strs = <<>> THEN <<>>
    ELSE IF Len(strs) = 1 THEN strs[1]
    ELSE strs[1] \o sep \o join(Tail(strs), sep)

RECURSIVE split(_, _)
split(str, sepChar) ==
    IF \A i \in DOMAIN str : str[i] # sepChar THEN <<str>>
    ELSE LET i == CHOOSE k \in DOMAIN str :
                      str[k] = sepChar /\ \A j \in 1..(k - 1) : str[j] # sepChar
         IN  <<SubSeq(str, 1, i - 1)>> \o split(SubSeq(str, i + 1, Len(str)), sepChar)

(***************************************************************************)
(* src/smartsorter.ts                                                      *)
(***************************************************************************)
\* enum Direction { Up, Right, Down, Left }
DirectionUp    == 0
DirectionRight == 1
DirectionDown  == 2
DirectionLeft  == 3

directionMap ==
    ( <<"u","p">>                              :> DirectionUp    ) @@
    ( <<"f","o","r","w","a","r","d">>          :> DirectionUp    ) @@
    ( <<"t","o","p">>                          :> DirectionUp    ) @@
    ( <<"n","o","r","t","h">>                  :> DirectionUp    ) @@
    ( <<"f","r","o","n","t">>                  :> DirectionUp    ) @@
    ( <<"d","o","w","n">>                      :> DirectionDown  ) @@
    ( <<"b","a","c","k","w","a","r","d">>      :> DirectionDown  ) @@
    ( <<"b","o","t","t","o","m">>              :> DirectionDown  ) @@
    ( <<"s","o","u","t","h">>                  :> DirectionDown  ) @@
    ( <<"b","a","c","k">>                      :> DirectionDown  ) @@
    ( <<"l","e","f","t">>                      :> DirectionLeft  ) @@
    ( <<"w","e","s","t">>                      :> DirectionLeft  ) @@
    ( <<"r","i","g","h","t">>                  :> DirectionRight ) @@
    ( <<"e","a","s","t">>                      :> DirectionRight )

\* directionMap[str] ?? null, as a list: <<d>>, or <<>> for null.
asDirection(str) == IF str \in DOMAIN directionMap THEN <<directionMap[str]>> ELSE <<>>

\* enum SegmentType { Word, Direction, Number, Separator, Null }
SegWord      == 0
SegDirection == 1
SegNumber    == 2
SegSeparator == 3
SegNull      == 4

\* The three character classes of segmentRegexp,
\*   /([a-zA-z]+)|([0-9]+)|([^a-zA-Z0-9]+)/g
\* The first class is written A-z in the source: code units 65..122.
InWordClass(c)      == LET k == charCodeAt(c)
                       IN  (97 <= k /\ k <= 122) \/ (65 <= k /\ k <= 122)
InNumberClass(c)    == LET k == charCodeAt(c) IN 48 <= k /\ k <= 57
InSeparatorClass(c) == LET k == charCodeAt(c)
                       IN  ~(97 <= k /\ k <= 122) /\ ~(65 <= k /\ k <= 90)
                           /\ ~(48 <= k /\ k <= 57)

\* The alternative that matches at a character: the alternatives are tried in
\* order, 1 = word, 2 = number, 3 = separator.
MatchGroup(c) == IF InWordClass(c) THEN 1 ELSE IF InNumberClass(c) THEN 2 ELSE 3

InGroup(g, c) == CASE g = 1 -> InWordClass(c)
                   [] g = 2 -> InNumberClass(c)
                   [] g = 3 -> InSeparatorClass(c)

\* The end of the greedy match of group g that starts at position i.
RECURSIVE MatchEnd(_, _, _)
MatchEnd(str, g, i) ==
    IF i < Len(str) /\ InGroup(g, str[i + 1]) THEN MatchEnd(str, g, i + 1) ELSE i

\* One iteration of the loop of segmentize: the segment made of a match.
makeSegment(g, text) ==
    IF g = 1
    THEN LET strVal == toLowerCase(text)
             directionVal == asDirection(strVal)
         IN  \* if (directionVal): null and 0 are both falsy
             IF directionVal # <<>> /\ directionVal[1] # 0
             THEN <<SegDirection, directionVal[1]>>
             ELSE <<SegWord, strVal>>
    ELSE IF g = 2 THEN <<SegNumber, Number(text)>>
    ELSE <<SegSeparator, text>>

RECURSIVE segmentizeFrom(_, _)
segmentizeFrom(str, i) ==
    IF i > Len(str) THEN <<>>
    ELSE LET g == MatchGroup(str[i])
             e == MatchEnd(str, g, i)
         IN  <<makeSegment(g, SubSeq(str, i, e))>> \o segmentizeFrom(str, e + 1)

segmentize(str) == segmentizeFrom(str, 1)

\* Mutant of ValGreater: digit runs compared as text, not by value.
ValGreaterLexical(type, aVal, bVal) ==
    IF type = SegWord THEN StrLess(bVal, aVal)
    ELSE IF type = SegNumber THEN StrLess(NumberToString(bVal), NumberToString(aVal))
    ELSE aVal > bVal

\* Mutant of ValGreater: >= in place of >.
ValGreaterOrEqual(type, aVal, bVal) ==
    IF type = SegWord THEN ~StrLess(aVal, bVal) ELSE aVal >= bVal

\* aVal > bVal on two segment values of the same kind.
ValGreater(type, aVal, bVal) ==
    IF type = SegWord THEN StrLess(bVal, aVal) ELSE aVal > bVal

RECURSIVE compareFrom(_, _, _)
compareFrom(a, b, i) ==
    LET length == IF Len(a) > Len(b) THEN Len(a) ELSE Len(b)
    IN  IF i > length THEN 0
        ELSE IF i > Len(a) THEN -1
        ELSE IF i > Len(b) THEN 1
        ELSE LET aType == a[i][1]  aVal == a[i][2]
                 bType == b[i][1]  bVal == b[i][2]
             IN  IF aType # bType
                 THEN (IF aType > bType THEN 1 ELSE -1)
                 ELSE IF aType \in {SegWord, SegDirection, SegNumber}
                         /\ ValGreater(aType, aVal, bVal) THEN 1
                 ELSE IF aType \in {SegWord, SegDirection, SegNumber}
                         /\ ValGreater(aType, bVal, aVal) THEN -1
                 ELSE compareFrom(a, b, i + 1)

\* Mutant of compareSegmentLists: the shorter list first, whatever it holds.
compareSegmentListsByLength(a, b) ==
    IF Len(a) < Len(b) THEN -1 ELSE IF Len(a) > Len(b) THEN 1 ELSE compareFrom(a, b, 1)

compareSegmentLists(a, b) == compareFrom(a, b, 1)

EmptyCache == <<>>

\* Mutant of toSegmentList: a cache that confuses strings of equal length.
toSegmentListByLength(cache, str) ==
    IF \E k \in DOMAIN cache : Len(k) = Len(str)
    THEN cache[CHOOSE k \in DOMAIN cache : Len(k) = Len(str)]
    ELSE segmentize(str)

\* SmartSorter.toSegmentList: the cached list, or segmentize(str).
toSegmentList(cache, str) ==
    IF str \in DOMAIN cache THEN cache[str] ELSE segmentize(str)

\* The cache after toSegmentList(str).
cacheAfter(cache, str) ==
    IF str \in DOMAIN cache THEN cache ELSE (str :> segmentize(str)) @@ cache

\* SmartSorter.compare on an instance whose cache is `cache`.
compare(cache, a, b) ==
    compareSegmentLists(toSegmentList(cache, a),
                        toSegmentList(cacheAfter(cache, a), b))

\* new SmartSorter().compare(a, b)
freshCompare(a, b) == compare(EmptyCache, a, b)


\* SmartSorter.sortInPlace(list): Array.prototype.sort with compare as its
\* comparison function, on the instance both callers create for the one sort.
\* The sort is stable: an insertion from the right, past the elements that
\* compare greater.
RECURSIVE insertSorted(_, _)
insertSorted(sorted, x) ==
    IF sorted = <<>> THEN <<x>>
    ELSE IF freshCompare(sorted[Len(sorted)], x) > 0
         THEN Append(insertSorted(SubSeq(sorted, 1, Len(sorted) - 1), x),
                     sorted[Len(sorted)])
         ELSE Append(sorted, x)

RECURSIVE sortFrom(_, _)
sortFrom(sorted, rest) ==
    IF rest = <<>> THEN sorted ELSE sortFrom(insertSorted(sorted, rest[1]), Tail(rest))

sortInPlace(list) == sortFrom(<<>>, list)

(***************************************************************************)
(* Node's path module, on POSIX paths without "." and ".." segments        *)
(***************************************************************************)
Slash == <<"/">>

HasChar(str, c) == \E i \in DOMAIN str : str[i] = c
LastIndexOf(str, c) == CHOOSE i \in DOMAIN str :
                           str[i] = c /\ \A j \in (i + 1)..Len(str) : str[j] # c

\* The last segment of a path.
LastSegment(p) == IF HasChar(p, "/") THEN SubSeq(p, LastIndexOf(p, "/") + 1, Len(p)) ELSE p

\* path.dirname
pathDirname(p) ==
    IF ~HasChar(p, "/") THEN <<".">>
    ELSE IF LastIndexOf(p, "/") = 1 THEN Slash
    ELSE SubSeq(p, 1, LastIndexOf(p, "/") - 1)

\* path.extname: from the last "." of the last segment, unless that "." is
\* its first character.
pathExtname(p) ==
    LET base == LastSegment(p)
    IN  IF HasChar(base, ".") /\ LastIndexOf(base, ".") > 1
        THEN SubSeq(base, LastIndexOf(base, "."), Len(base))
        ELSE <<>>

\* path.basename(p, ext)
pathBasename(p, ext) ==
    LET base == LastSegment(p)
    IN  IF ext # <<>> /\ Len(base) > Len(ext)
           /\ SubSeq(base, Len(base) - Len(ext) + 1, Len(base)) = ext
        THEN SubSeq(base, 1, Len(base) - Len(ext))
        ELSE base

\* path.resolve(dir, name) for an absolute dir and a plain relative name.
pathResolve(dir, name) == IF dir = Slash THEN dir \o name ELSE dir \o Slash \o name

\* path.relative(from, to) for a path `to` inside the directory `from`.
pathRelative(from, to) ==
    CASE Len(to) > Len(from) + 1 /\ SubSeq(to, 1, Len(from) + 1) = from \o Slash
             -> SubSeq(to, Len(from) + 2, Len(to))
      [] to = from -> <<>>

\* str.replace(/^\./, "")
stripLeadingDot(str) == IF str # <<>> /\ str[1] = "." THEN Tail(str) ELSE str

(***************************************************************************)
(* src/filewalker.ts: PathInfo                                             *)
(***************************************************************************)
\* toPathInfo(workingDirectory, filePath) for an absolute filePath.
toPathInfo(workingDirectory, filePath) ==
    LET absolute == filePath
        relative == pathRelative(workingDirectory, absolute)
        dirnameAbsolute == pathDirname(absolute)
        dirnameFull == pathDirname(relative)
        extnameFull == pathExtname(relative)
        extname == stripLeadingDot(extnameFull)
    IN  [ path         |-> absolute,
          dirname      |-> dirnameAbsolute,
          dirnames     |-> split(dirnameFull, "/"),
          basename     |-> pathBasename(relative, extnameFull),
          extname      |-> extname,
          extnameLower |-> toLowerCase(extname) ]

\* The default of walkPaths' extensions parameter.
DefaultExtensions ==
    << <<"p","n","g">>, <<"j","p","g">>, <<"j","p","e","g">>, <<"g","i","f">>,
       <<"w","e","b","p">>, <<"t","i","f","f">>, <<"s","v","g">> >>

\* An extensions argument: null, or a list.
NullExtensions   == [isNull |-> TRUE,  list |-> <<>>]
Extensions(list) == [isNull |-> FALSE, list |-> list]

\* walkPaths: extensions = extensions.map((ext) => ext.toLowerCase()), or null
lowerExtensions(extensions) ==
    IF extensions.isNull THEN extensions
    ELSE Extensions([i \in DOMAIN extensions.list |-> toLowerCase(extensions.list[i])])

\* Mutant of extensionsInclude: the file's extension is compared as written.
extensionsIncludeExact(extensions, filePath) ==
    IF extensions.isNull THEN TRUE
    ELSE LET extname == stripLeadingDot(pathExtname(filePath))
         IN  \E i \in DOMAIN extensions.list : extensions.list[i] = extname

\* extensionsInclude(extensions, filePath)
extensionsInclude(extensions, filePath) ==
    IF extensions.isNull THEN TRUE
    ELSE LET extnameLower == toLowerCase(stripLeadingDot(pathExtname(filePath)))
         IN  \E i \in DOMAIN extensions.list : extensions.list[i] = extnameLower

\* fs.stat(filePath).isDirectory() / .isFile() on the tree: dirs maps each
\* directory to what readdir lists for it, files is the set of regular
\* files, every other listed entry is neither.
isDirectory(tree, filePath) == filePath \in DOMAIN tree.dirs
isFile(tree, filePath)      == filePath \in tree.files

\* fs.readdir(filePath).map((subFilePath) => path.resolve(filePath, subFilePath))
readdirResolved(tree, filePath) ==
    [i \in DOMAIN tree.dirs[filePath] |-> pathResolve(filePath, tree.dirs[filePath][i])]

\* walkPath on a regular file: what it returns.
walkFile(filePath, extensions, top) ==
    IF ~top /\ ~extensionsInclude(extensions, filePath) THEN <<>> ELSE <<filePath>>

\* walkPaths: filePath = path.resolve(workingDirectory, paths[i]) for an
\* absolute path or a plain name.
resolveRoot(workingDirectory, rootPath) ==
    IF rootPath # <<>> /\ rootPath[1] = "/" THEN rootPath
    ELSE pathResolve(workingDirectory, rootPath)

\* walkPaths, after await Promise.all(promises): the paths are sorted and
\* turned into PathInfos.
walkFinish(workingDirectory, paths) ==
    LET sorted == sortInPlace(paths)
    IN  [i \in DOMAIN sorted |-> toPathInfo(workingDirectory, sorted[i])]

(***************************************************************************)
(* src/layouts.ts                                                          *)
(***************************************************************************)
\* options?.width ?? 64
DefaultWidth == 64

\* The name of a tiles entry.
tileName(pathInfo, longTileNames) ==
    (IF longTileNames THEN join(pathInfo.dirnames, Slash) \o Slash ELSE <<>>)
        \o pathInfo.basename

\* Mutant of listTile: the column counted from 1.
listTileFromOne(pathInfo, x, y, longTileNames) ==
    [name |-> tileName(pathInfo, longTileNames), path |-> pathInfo.path,
     x |-> x + 1, y |-> y]

\* layoutList, the tiles.push of the column loop.
listTile(pathInfo, x, y, longTileNames) ==
    [name |-> tileName(pathInfo, longTileNames), path |-> pathInfo.path,
     x |-> x, y |-> y]

\* layoutList, the column loop of one row: for x from 0 to width - 1 one
\* PathInfo (or null, once pathInfos is empty) is shifted off pathInfos,
\* row[x] is its path (or null), and a tiles entry is pushed unless it is null.
listColumns(pathInfos, y, width, tiles, longTileNames) ==
    LET taken == IF width < 0 THEN 0
                 ELSE IF width < Len(pathInfos) THEN width ELSE Len(pathInfos)
    IN  [ pathInfos |-> SubSeq(pathInfos, taken + 1, Len(pathInfos)),
          row       |-> [x1 \in 1..width |->
                            IF x1 <= taken THEN pathInfos[x1].path ELSE Null],
          tiles     |-> tiles \o [x1 \in 1..taken |->
                            listTile(pathInfos[x1], x1 - 1, y, longTileNames)] ]

\* layoutList, the do { ... } while (pathInfos.length > 0) over the rows.
RECURSIVE listRows(_, _, _, _, _, _)
listRows(pathInfos, y, width, tileset, tiles, longTileNames) ==
    LET cols == listColumns(pathInfos, y, width, tiles, longTileNames)
        tileset1 == Append(tileset, cols.row)
    IN  IF Len(cols.pathInfos) > 0
        THEN listRows(cols.pathInfos, y + 1, width, tileset1, cols.tiles, longTileNames)
        ELSE [tileset |-> tileset1, tiles |-> cols.tiles]

\* Mutant of layoutList: rows end at their last path, no null cells.
layoutListRagged(pathInfos, width, longTileNames) ==
    LET r == listRows(pathInfos, 0, width, <<>>, <<>>, longTileNames)
    IN  [tileset |-> [y1 \in DOMAIN r.tileset |->
                         SelectSeq(r.tileset[y1], LAMBDA cell : cell # Null)],
         tiles |-> r.tiles,
         sequences |-> <<>>, animations |-> <<>>, warnings |-> <<>>]

\* layoutList(inputPathInfos, { width, longTileNames }), width >= 1.
layoutList(pathInfos, width, longTileNames) ==
    LET r == listRows(pathInfos, 0, width, <<>>, <<>>, longTileNames)
    IN  [tileset |-> r.tileset, tiles |-> r.tiles,
         sequences |-> <<>>, animations |-> <<>>, warnings |-> <<>>]

\* layoutSequences, the tiles.push of the inner loop.  It is handed x and y
\* as they are when the push is reached.
sequenceTile(pathInfo, x, y, longTileNames) ==
    [name |-> tileName(pathInfo, longTileNames), path |-> pathInfo.path,
     x |-> x, y |-> y]

\* Mutant of sequenceEntry: the row read after y was incremented.
sequenceEntryRowAfter(pathInfo, y, length, longSequenceNames) ==
    [name   |-> IF longSequenceNames THEN join(pathInfo.dirnames, Slash)
                ELSE pathInfo.dirnames[Len(pathInfo.dirnames)],
     row    |-> y + 1,
     length |-> length]

\* layoutSequences, the sequences entry of one row: row is y as it is when
\* the row is started, length what the inner loop counted.
sequenceEntry(pathInfo, y, length, longSequenceNames) ==
    [name   |-> IF longSequenceNames THEN join(pathInfo.dirnames, Slash)
                ELSE pathInfo.dirnames[Len(pathInfo.dirnames)],
     row    |-> y,
     length |-> length]

\* layoutSequences, one pass of the inner do { ... } while
\* (pathInfos[0]?.dirname === dirname) with curPathInfo already taken:
\*     tilesetRow[x++] = curPathInfo.path; tiles.push({ ..., x, y });
RECURSIVE sequenceRun(_, _, _, _, _, _, _, _, _)
sequenceRun(pathInfos, curPathInfo, dirname, x, y, row, tiles, length, longTileNames) ==
    LET row1    == Append(row, curPathInfo.path)
        x1      == x + 1
        tiles1  == Append(tiles, sequenceTile(curPathInfo, x1, y, longTileNames))
        length1 == length + 1
    IN  IF pathInfos # <<>> /\ pathInfos[1].dirname = dirname
        THEN sequenceRun(Tail(pathInfos), pathInfos[1], dirname, x1, y, row1, tiles1,
                         length1, longTileNames)
        ELSE [pathInfos |-> pathInfos, row |-> row1, tiles |-> tiles1,
              length |-> length1]

\* layoutSequences, the outer do { ... } while (pathInfos.length > 0):
\*     sequence = { name, row: y, length: 0 }; tilesetRow = tileset[y++] = [];
RECURSIVE sequenceRows(_, _, _, _, _, _)
sequenceRows(pathInfos, y, tileset, tiles, sequences, longNames) ==
    IF pathInfos = <<>>
    THEN [tileset |-> tileset, tiles |-> tiles, sequences |-> sequences]
    ELSE LET pathInfo == pathInfos[1]
             y1  == y + 1
             run == sequenceRun(Tail(pathInfos), pathInfo, pathInfo.dirname, 0, y1,
                                <<>>, tiles, 0, longNames)
             tileset1   == Append(tileset, run.row)
             sequences1 == Append(sequences,
                                  sequenceEntry(pathInfo, y, run.length, longNames))
         IN  IF Len(run.pathInfos) > 0
             THEN sequenceRows(run.pathInfos, y1, tileset1, run.tiles, sequences1,
                               longNames)
             ELSE [tileset |-> tileset1, tiles |-> run.tiles,
                   sequences |-> sequences1]

\* layoutSequences(inputPathInfos, { longTileNames, longSequenceNames })
layoutSequences(pathInfos, longNames) ==
    LET r == sequenceRows(pathInfos, 0, <<>>, <<>>, <<>>, longNames)
    IN  [tileset |-> r.tileset, tiles |-> r.tiles,
         sequences |-> r.sequences, animations |-> <<>>, warnings |-> <<>>]

\* The numbers of a finite set in ascending order.
RECURSIVE Ascending(_)
Ascending(S) ==
    IF S = {} THEN <<>>
    ELSE LET m == CHOOSE k \in S : \A j \in S : k <= j
         IN  <<m>> \o Ascending(S \ {m})

\* A property key that is an array index: the canonical text of a number.
IsIndexKey(key) == AllDigits(key) /\ NumberToString(DigitsValue(key)) = key

\* Object.keys of an object whose string keys were created in the order
\* `inserted`: the array-index keys in ascending numeric order, then the
\* others in creation order.
ObjectKeys(inserted) ==
    LET indexKeys == {DigitsValue(inserted[i]) : i \in {j \in DOMAIN inserted :
                                                          IsIndexKey(inserted[j])}}
        asc == Ascending(indexKeys)
    IN  [i \in DOMAIN asc |-> NumberToString(asc[i])]
        \o SelectSeq(inserted, LAMBDA k : ~IsIndexKey(k))

\* Array.prototype.sort() without a comparison function, on numbers: the
\* elements are ordered as their texts are, by UTF-16 code units.
RECURSIVE insertByText(_, _)
insertByText(sorted, n) ==
    IF sorted = <<>> THEN <<n>>
    ELSE IF StrLess(NumberToString(n), NumberToString(sorted[Len(sorted)]))
         THEN Append(insertByText(SubSeq(sorted, 1, Len(sorted) - 1), n),
                     sorted[Len(sorted)])
         ELSE Append(sorted, n)

RECURSIVE defaultSort(_)
defaultSort(nums) ==
    IF nums = <<>> THEN <<>>
    ELSE insertByText(defaultSort(SubSeq(nums, 1, Len(nums) - 1)), nums[Len(nums)])

\* layoutAnimations: animationPaths before the first file.  keys is the
\* creation order of its properties, byKey their values; in a value, angles
\* is the creation order of the angle properties and paths their PathInfos.
NoAnimationPaths == [keys |-> <<>>, byKey |-> <<>>, warnings |-> <<>>]

\* layoutAnimations: angleDirname = dirnames.shift() ?? null
angleDirnameOf(dirnames) == IF dirnames = <<>> THEN Null ELSE dirnames[1]

\* Mutant of animationAdd: a further file of an angle replaces the files
\* the angle already has.
animationAddOverwrite(ap, pathInfo, longAnimationNames) ==
    LET angleDirname    == angleDirnameOf(pathInfo.dirnames)
        dirnames        == IF pathInfo.dirnames = <<>> THEN <<>>
                           ELSE Tail(pathInfo.dirnames)
        sequenceDirname == IF Len(dirnames) > 0 THEN join(dirnames, Slash) ELSE Null
    IN  IF angleDirname = <<>> \/ sequenceDirname = <<>>
        THEN [ap EXCEPT !.warnings = Append(@, pathInfo.path)]
        ELSE IF NumberIsNaN(angleDirname)
        THEN [ap EXCEPT !.warnings = Append(@, pathInfo.path)]
        ELSE
          LET angle == Number(angleDirname)
              name  == IF longAnimationNames THEN sequenceDirname ELSE dirnames[1]
              isNew == sequenceDirname \notin DOMAIN ap.byKey
              old   == IF isNew THEN [name |-> name, angles |-> <<>>, paths |-> <<>>]
                       ELSE ap.byKey[sequenceDirname]
              new   == IF angle \in DOMAIN old.paths
                       THEN [old EXCEPT !.paths[angle] = <<pathInfo>>]
                       ELSE [old EXCEPT !.angles = Append(@, NumberToString(angle)),
                                        !.paths = (angle :> <<pathInfo>>) @@ @]
          IN  [ap EXCEPT !.keys  = IF isNew THEN Append(@, sequenceDirname) ELSE @,
                         !.byKey = (sequenceDirname :> new) @@ @]

\* layoutAnimations, one pass of the loop that populates animationPaths.
animationAdd(ap, pathInfo, longAnimationNames) ==
    LET angleDirname    == angleDirnameOf(pathInfo.dirnames)
        dirnames        == IF pathInfo.dirnames = <<>> THEN <<>>
                           ELSE Tail(pathInfo.dirnames)
        sequenceDirname == IF Len(dirnames) > 0 THEN join(dirnames, Slash) ELSE Null
    IN  IF angleDirname = <<>> \/ sequenceDirname = <<>>
        THEN [ap EXCEPT !.warnings = Append(@, pathInfo.path)]
        ELSE IF NumberIsNaN(angleDirname)
        THEN [ap EXCEPT !.warnings = Append(@, pathInfo.path)]
        ELSE
          LET angle == Number(angleDirname)
              name  == IF longAnimationNames THEN sequenceDirname ELSE dirnames[1]
              isNew == sequenceDirname \notin DOMAIN ap.byKey
              old   == IF isNew THEN [name |-> name, angles |-> <<>>, paths |-> <<>>]
                       ELSE ap.byKey[sequenceDirname]
              new   == IF angle \in DOMAIN old.paths
                       THEN [old EXCEPT !.paths[angle] = Append(@, pathInfo)]
                       ELSE [old EXCEPT !.angles = Append(@, NumberToString(angle)),
                                        !.paths = (angle :> <<pathInfo>>) @@ @]
          IN  [ap EXCEPT !.keys  = IF isNew THEN Append(@, sequenceDirname) ELSE @,
                         !.byKey = (sequenceDirname :> new) @@ @]

RECURSIVE animationPopulate(_, _, _)
animationPopulate(ap, pathInfos, longAnimationNames) ==
    IF pathInfos = <<>> THEN ap
    ELSE animationPopulate(animationAdd(ap, pathInfos[1], longAnimationNames),
                           Tail(pathInfos), longAnimationNames)

\* layoutAnimations: Object.keys(animationPath.angles).map(Number).sort()
angleKeysOf(animationPath) ==
    LET keys == ObjectKeys(animationPath.angles)
    IN  defaultSort([i \in DOMAIN keys |-> Number(keys[i])])

\* layoutAnimations, the loop over the angles of one animation.
RECURSIVE animationAngles(_, _, _, _, _, _)
animationAngles(animationPath, angleKeys, tileset, tiles, angles, longTileNames) ==
    IF angleKeys = <<>>
    THEN [tileset |-> tileset, tiles |-> tiles, angles |-> angles]
    ELSE LET angleKey == angleKeys[1]
             paths    == animationPath.paths[angleKey]
             rowIndex == Len(tileset)
             row      == [x \in DOMAIN paths |-> paths[x].path]
             newTiles == [x \in DOMAIN paths |->
                             [name |-> tileName(paths[x], longTileNames),
                              path |-> paths[x].path, x |-> x - 1, y |-> rowIndex]]
         IN  animationAngles(animationPath, Tail(angleKeys),
                             Append(tileset, row), tiles \o newTiles,
                             Append(angles, [angle |-> angleKey, row |-> rowIndex,
                                             length |-> Len(paths)]),
                             longTileNames)

\* layoutAnimations, the loop over the sorted keys of animationPaths.
RECURSIVE animationRows(_, _, _, _, _, _)
animationRows(ap, dirnames, tileset, tiles, animations, longTileNames) ==
    IF dirnames = <<>>
    THEN [tileset |-> tileset, tiles |-> tiles, animations |-> animations]
    ELSE LET animationPath == ap.byKey[dirnames[1]]
             r == animationAngles(animationPath, angleKeysOf(animationPath),
                                  tileset, tiles, <<>>, longTileNames)
         IN  animationRows(ap, Tail(dirnames), r.tileset, r.tiles,
                           Append(animations, [name   |-> animationPath.name,
                                               angles |-> r.angles]),
                           longTileNames)

\* layoutAnimations(inputPathInfos, { longTileNames, longAnimationNames });
\* warnings lists the paths logWarn was called for.
layoutAnimations(pathInfos, longNames) ==
    LET ap == animationPopulate(NoAnimationPaths, pathInfos, longNames)
        r  == animationRows(ap, sortInPlace(ObjectKeys(ap.keys)), <<>>, <<>>, <<>>,
                            longNames)
    IN  [tileset |-> r.tileset, tiles |-> r.tiles,
         sequences |-> <<>>, animations |-> r.animations, warnings |-> ap.warnings]

(***************************************************************************)
(* The sorter as a state machine: one SmartSorter instance, its cache and  *)
(* the calls made on it.                                                   *)
(***************************************************************************)
MaxDigits  == 2      \* longest run of digits in a generated string
MaxSortLen == 3      \* longest list handed to sortInPlace

SortDigits == {"0", "1", "2"}
DigitRuns  == UNION {[1..k -> SortDigits] : k \in 1..MaxDigits}

\* (prefix, suffix) pairs around the run of digits
SortContexts ==
    { <<<<>>, <<>>>>,
      <<<<"f","r","a","m","e">>, <<>>>>,
      <<<<>>, <<".","p","n","g">>>>,
      <<<<"a","_">>, <<"-","b">>>> }

SortStrings == {c[1] \o d \o c[2] : c \in SortContexts, d \in DigitRuns}

Png(name) == name \o <<".","p","n","g">>

SortPool ==
    { Png(<<"1">>), Png(<<"2">>), Png(<<"1","0">>), Png(<<"0","1">>),
      <<"f","r","a","m","e","2">>, <<"f","r","a","m","e","1","0">> }

\* The lists of at most n distinct elements of S.
RECURSIVE DistinctSeqs(_, _)
DistinctSeqs(S, n) ==
    IF n = 0 THEN {<<>>}
    ELSE LET shorter == DistinctSeqs(S, n - 1)
         IN  shorter \cup
             UNION {{Append(q, x) : x \in S \ Range(q)} : q \in shorter}

SortLists == DistinctSeqs(SortPool, MaxSortLen)

NoCall == [op |-> "none", args |-> <<>>, result |-> <<>>]

SortIdle   == segmentListCache = EmptyCache /\ sortCall = NoCall
NoLayoutCall == [op |-> "none", width |-> 0, longNames |-> FALSE]

LayoutIdle == inputPathInfos = <<>> /\ layoutCall = NoLayoutCall /\ layout = Null
NoWalkArgs   == [called |-> FALSE, paths |-> <<>>, extensions |-> NullExtensions,
                 extensionsGiven |-> NullExtensions]
NoWalkResult == [done |-> FALSE, threw |-> FALSE, pathInfos |-> <<>>]

WalkIdle   == /\ fsTree = <<>> /\ walkArgs = NoWalkArgs /\ walkPc = <<>>
              /\ walked = <<>> /\ filePaths = <<>> /\ walkResult = NoWalkResult
NoCompositeArgs   == [called |-> FALSE]
NoCompositeResult == [state |-> "none"]

CompositeIdle == /\ compositeArgs = NoCompositeArgs /\ promises = {}
                 /\ overlays = <<>> /\ compositeResult = NoCompositeResult
                 /\ rejectedOverlays = {} /\ outputFiles = <<>>
NoListLoop == [state |-> "none"]

ListIdle == listLoop = NoListLoop

SequenceIdle == /\ seqTree = <<>> /\ seqPc = <<>> /\ seqImages = <<>>
                /\ sequenceList = <<>> /\ sequencesReturned = FALSE

\* sorter.compare(a, b)
SorterCompare(a, b) ==
    /\ sortCall' = [op |-> "compare", args |-> <<a, b>>,
                    result |-> compare(segmentListCache, a, b)]
    /\ segmentListCache' = cacheAfter(cacheAfter(segmentListCache, a), b)
    /\ UNCHANGED <<layoutVars, walkVars, compositeVars, listVars, sequenceVars>>

\* new SmartSorter().sortInPlace(list)
SorterSort(list) ==
    /\ sortCall' = [op |-> "sort", args |-> list, result |-> sortInPlace(list)]
    /\ segmentListCache' = [str \in Range(list) |-> segmentize(str)]
    /\ UNCHANGED <<layoutVars, walkVars, compositeVars, listVars, sequenceVars>>

\* new SmartSorter()
NewSorter ==
    /\ segmentListCache # EmptyCache
    /\ segmentListCache' = EmptyCache
    /\ sortCall' = NoCall
    /\ UNCHANGED <<layoutVars, walkVars, compositeVars, listVars, sequenceVars>>

SortInit == SortIdle /\ LayoutIdle /\ WalkIdle /\ CompositeIdle /\ ListIdle /\ SequenceIdle

SortNext ==
    \/ segmentListCache = EmptyCache /\ \E a, b \in SortStrings : SorterCompare(a, b)
    \/ segmentListCache = EmptyCache /\ \E list \in SortLists : SorterSort(list)
    \/ NewSorter

SpecSort == SortInit /\ [][SortNext]_vars


(***************************************************************************)
(* C10                                                                     *)
(***************************************************************************)
Sign(n) == IF n > 0 THEN 1 ELSE IF n < 0 THEN -1 ELSE 0

\* The ways a and b are the same string but for one maximal run of digits:
\* <<p, ea, eb>> with a = P \o D1 \o S and b = P \o D2 \o S, P the first p
\* characters, D1 = a[p+1..ea] and D2 = b[p+1..eb] runs of digits, P not
\* ending and S not starting with a digit.
DigitRunSplits(a, b) ==
    { t \in (0..Len(a)) \X (1..Len(a)) \X (1..Len(b)) :
        LET p == t[1]  ea == t[2]  eb == t[3]
        IN  /\ p < ea /\ p < eb
            /\ SubSeq(a, 1, p) = SubSeq(b, 1, p)
            /\ AllDigits(SubSeq(a, p + 1, ea))
            /\ AllDigits(SubSeq(b, p + 1, eb))
            /\ SubSeq(a, ea + 1, Len(a)) = SubSeq(b, eb + 1, Len(b))
            /\ (p > 0 => ~IsDigit(a[p]))
            /\ (ea < Len(a) => ~IsDigit(a[ea + 1])) }

Png1  == Png(<<"1">>)
Png2  == Png(<<"2">>)
Png10 == Png(<<"1","0">>)

\* C10: two strings that are identical except for one run of digits compare
\* as the numeric values of the two runs do, and sorting 1.png, 2.png, 10.png
\* (given in any order) yields 1.png, 2.png, 10.png.
C10_NumericRunOrder ==
    /\ sortCall.op = "compare" =>
         LET a == sortCall.args[1]
             b == sortCall.args[2]
         IN  \A t \in DigitRunSplits(a, b) :
                 sortCall.result =
                     Sign(DigitsValue(SubSeq(a, t[1] + 1, t[2]))
                          - DigitsValue(SubSeq(b, t[1] + 1, t[3])))
    /\ (sortCall.op = "sort" /\ Len(sortCall.args) = 3
            /\ Range(sortCall.args) = {Png1, Png2, Png10})
         => sortCall.result = <<Png1, Png2, Png10>>

\* frame10 compared with frame2: the runs 10 and 2 decide, 10 is the greater.
C10_Witness ==
    /\ sortCall.op = "compare"
    /\ sortCall.args = << <<"f","r","a","m","e","1","0">>, <<"f","r","a","m","e","2">> >>
    /\ DigitRunSplits(sortCall.args[1], sortCall.args[2]) # {}
    /\ sortCall.result = 1


(***************************************************************************)
(* The layout engine as a state machine: a PathInfo[] is given, and one    *)
(* of the three layout functions is called on it.                          *)
(***************************************************************************)
MaxInputLen == 3     \* longest freely ordered input list
MaxWidth    == 4     \* widest list layout besides the default width

WorkingDirectory == <<"/","w">>

F1png == <<"f","1",".","p","n","g">>
Walk  == <<"w","a","l","k">>
Run   == <<"r","u","n">>

\* The PathInfo of the file at the segments segs below the working directory.
File(segs) == toPathInfo(WorkingDirectory, pathResolve(WorkingDirectory, join(segs, Slash)))

LayoutPool ==
    { File(<<Walk, <<"0">>, F1png>>),
      File(<<Walk, <<"9","0">>, F1png>>),
      File(<<<<"9","0">>, Walk, F1png>>),
      File(<<<<"1","8","0">>, Walk, F1png>>),
      File(<<<<"a">>, Png1>>),
      File(<<<<"a">>, Png2>>),
      File(<<<<"b">>, Png1>>),
      File(<<<<"f",".","p","n","g">>>>) }

\* walk/0/f1.png, walk/90/f1.png, run/0/f1.png
ExampleAnimation ==
    << File(<<Walk, <<"0">>, F1png>>),
       File(<<Walk, <<"9","0">>, F1png>>),
       File(<<Run, <<"0">>, F1png>>) >>

\* 0/walk/f1.png, 90/walk/f1.png, 180/walk/f1.png, 270/walk/f1.png
ExampleAngles ==
    << File(<<<<"0">>, Walk, F1png>>),
       File(<<<<"9","0">>, Walk, F1png>>),
       File(<<<<"1","8","0">>, Walk, F1png>>),
       File(<<<<"2","7","0">>, Walk, F1png>>) >>

\* a/1.png, a/2.png, a/3.png, b/1.png, b/2.png
ExampleAB ==
    << File(<<<<"a">>, Png1>>), File(<<<<"a">>, Png2>>), File(<<<<"a">>, Png(<<"3">>)>>),
       File(<<<<"b">>, Png1>>), File(<<<<"b">>, Png2>>) >>

\* t/0.png ... t/9.png
ExampleTen == [i \in DOMAIN DigitChars |-> File(<<<<"t">>, Png(<<DigitChars[i]>>)>>)]

Abs(segs) == Slash \o join(segs, Slash)

\* The example tree of README.md below /w, as readdir lists it:
\*   root/anim1: 1.png .. 4.png, subanim1/     root/anim1/subanim1: a.png .. d.png
\*   root/anim2: frame1.jpg, frame2.jpg, frame3final.jpg, frame4.jpg
Jpg(name) == name \o <<".","j","p","g">>
Anim1 == <<"a","n","i","m","1">>
Anim2 == <<"a","n","i","m","2">>
Subanim1 == <<"s","u","b","a","n","i","m","1">>
Frame(n) == <<"f","r","a","m","e">> \o n

ReadmeAnim1Paths ==
    [i \in 1..4 |-> Abs(<< <<"w">>, <<"r","o","o","t">>, Anim1, Png(<<DigitChars[i + 1]>>) >>)]
ReadmeSubanim1Paths ==
    [i \in 1..4 |-> Abs(<< <<"w">>, <<"r","o","o","t">>, Anim1, Subanim1,
                           Png(<<LowerChars[i]>>) >>)]
ReadmeAnim2Paths ==
    << Abs(<< <<"w">>, <<"r","o","o","t">>, Anim2, Jpg(Frame(<<"1">>)) >>),
       Abs(<< <<"w">>, <<"r","o","o","t">>, Anim2, Jpg(Frame(<<"2">>)) >>),
       Abs(<< <<"w">>, <<"r","o","o","t">>, Anim2, Jpg(Frame(<<"3","f","i","n","a","l">>)) >>),
       Abs(<< <<"w">>, <<"r","o","o","t">>, Anim2, Jpg(Frame(<<"4">>)) >>) >>

\* What walkPaths(["root"]) returns for it.
ExampleReadme ==
    walkFinish(WorkingDirectory,
               ReadmeAnim1Paths \o ReadmeSubanim1Paths \o ReadmeAnim2Paths)

\* 90/walk/f1.png, 0/run/f1.png, 90/walk/f2.png, 0/walk/b/f1.png,
\* 090/walk/f3.png, f.png, 90/run/f1.png
ExampleInterleaved ==
    << File(<<<<"9","0">>, Walk, F1png>>),
       File(<<<<"0">>, Run, F1png>>),
       File(<<<<"9","0">>, Walk, Png(<<"f","2">>)>>),
       File(<<<<"0">>, Walk, <<"b">>, F1png>>),
       File(<<<<"0","9","0">>, Walk, Png(<<"f","3">>)>>),
       File(<<<<"f",".","p","n","g">>>>),
       File(<<<<"9","0">>, Run, F1png>>) >>

LayoutInputs ==
    DistinctSeqs(LayoutPool, MaxInputLen)
        \cup {ExampleAnimation, ExampleAngles, ExampleAB, ExampleTen, ExampleReadme,
              ExampleInterleaved}

Widths == (1..MaxWidth) \cup {DefaultWidth}

\* layoutList(inputPathInfos, { width, longTileNames })
LayoutList(width, longNames) ==
    /\ layoutCall.op = "none"
    /\ layoutCall' = [op |-> "layoutList", width |-> width, longNames |-> longNames]
    /\ layout' = layoutList(inputPathInfos, width, longNames)
    /\ UNCHANGED <<inputPathInfos, sortVars, walkVars, compositeVars, listVars, sequenceVars>>

\* layoutSequences(inputPathInfos, { longTileNames, longSequenceNames })
LayoutSequences(longNames) ==
    /\ layoutCall.op = "none"
    /\ layoutCall' = [op |-> "layoutSequences", width |-> 0, longNames |-> longNames]
    /\ layout' = layoutSequences(inputPathInfos, longNames)
    /\ UNCHANGED <<inputPathInfos, sortVars, walkVars, compositeVars, listVars, sequenceVars>>

\* layoutAnimations(inputPathInfos, { longTileNames, longAnimationNames })
LayoutAnimations(longNames) ==
    /\ layoutCall.op = "none"
    /\ layoutCall' = [op |-> "layoutAnimations", width |-> 0, longNames |-> longNames]
    /\ layout' = layoutAnimations(inputPathInfos, longNames)
    /\ UNCHANGED <<inputPathInfos, sortVars, walkVars, compositeVars, listVars, sequenceVars>>

LayoutInit ==
    /\ inputPathInfos \in LayoutInputs
    /\ layoutCall = NoLayoutCall
    /\ layout = Null
    /\ SortIdle /\ WalkIdle /\ CompositeIdle /\ ListIdle /\ SequenceIdle

LayoutNext ==
    \/ \E width \in Widths, longNames \in BOOLEAN : LayoutList(width, longNames)
    \/ \E longNames \in BOOLEAN : LayoutSequences(longNames)
    \/ \E longNames \in BOOLEAN : LayoutAnimations(longNames)

SpecLayout == LayoutInit /\ [][LayoutNext]_vars


(***************************************************************************)
(* Claims on the layout engine                                             *)
(***************************************************************************)
InputPaths == {inputPathInfos[i].path : i \in DOMAIN inputPathInfos}

\* The tiles entries of path p.
TilesOf(p) == {i \in DOMAIN layout.tiles : layout.tiles[i].path = p}

\* C1: in the layout any of the three functions returns, every non-empty
\* cell tileset[y][x] = p has exactly one tiles entry of path p, at that x
\* and y, and every tiles entry {path, x, y} has tileset[y][x] = path.
C1_TilesMatchTileset ==
    layoutCall.op # "none" =>
        /\ \A y1 \in DOMAIN layout.tileset : \A x1 \in DOMAIN layout.tileset[y1] :
              layout.tileset[y1][x1] # Null =>
                 /\ Cardinality(TilesOf(layout.tileset[y1][x1])) = 1
                 /\ \A i \in TilesOf(layout.tileset[y1][x1]) :
                        layout.tiles[i].x = x1 - 1 /\ layout.tiles[i].y = y1 - 1
        /\ \A i \in DOMAIN layout.tiles :
              /\ layout.tiles[i].y + 1 \in DOMAIN layout.tileset
              /\ layout.tiles[i].x + 1 \in DOMAIN layout.tileset[layout.tiles[i].y + 1]
              /\ layout.tileset[layout.tiles[i].y + 1][layout.tiles[i].x + 1]
                     = layout.tiles[i].path

\* C2: for walk/0/f1.png, walk/90/f1.png and run/0/f1.png layoutAnimations
\* skips no file and returns the two animations run (angle 0) and walk
\* (angles 0 and 90), in that order.
C2_InnermostIsAngle ==
    (layoutCall.op = "layoutAnimations" /\ inputPathInfos = ExampleAnimation) =>
        /\ layout.warnings = <<>>
        /\ Len(layout.animations) = 2
        /\ layout.animations[1].name = Run
        /\ layout.animations[2].name = Walk
        /\ [i \in DOMAIN layout.animations[1].angles |->
               layout.animations[1].angles[i].angle] = <<0>>
        /\ [i \in DOMAIN layout.animations[2].angles |->
               layout.animations[2].angles[i].angle] = <<0, 90>>

\* C3: in every animations entry the angles are in ascending numeric order
\* and their rows increase in the same order.
C3_AnglesAscending ==
    layoutCall.op = "layoutAnimations" =>
        \A a \in DOMAIN layout.animations :
            \A i, j \in DOMAIN layout.animations[a].angles :
                i < j => /\ layout.animations[a].angles[i].angle
                              < layout.animations[a].angles[j].angle
                         /\ layout.animations[a].angles[i].row
                              < layout.animations[a].angles[j].row

\* C4: for a (3 files) and b (2 files) layoutSequences returns 2 rows of
\* lengths 3 and 2, and for every input every tiles entry's y is the row of
\* the sequences entry whose tileset row holds that tile's file.
C4_TileRowIsSequenceRow ==
    layoutCall.op = "layoutSequences" =>
        /\ inputPathInfos = ExampleAB =>
              /\ Len(layout.tileset) = 2
              /\ [k \in DOMAIN layout.sequences |-> layout.sequences[k].length] = <<3, 2>>
        /\ \A i \in DOMAIN layout.tiles :
              \E k \in DOMAIN layout.sequences :
                  /\ layout.sequences[k].row + 1 \in DOMAIN layout.tileset
                  /\ layout.tiles[i].path
                         \in Range(layout.tileset[layout.sequences[k].row + 1])
                  /\ layout.tiles[i].y = layout.sequences[k].row

CeilDiv(n, w) == (n + w - 1) \div w

\* The number of paths in a row.
PathCount(row) == Cardinality({x1 \in DOMAIN row : row[x1] # Null})

\* C6 as stated: ceil(n/W) rows, every row but the last of length W, the
\* last of length n - W*(ceil(n/W) - 1), and n tiles entries.
C6_RowLengthsAsStated ==
    layoutCall.op = "layoutList" =>
        LET n == Len(inputPathInfos)
            w == layoutCall.width
            rows == CeilDiv(n, w)
        IN  /\ Len(layout.tileset) = rows
            /\ \A y1 \in DOMAIN layout.tileset :
                  Len(layout.tileset[y1]) = IF y1 < rows THEN w ELSE n - w * (rows - 1)
            /\ Len(layout.tiles) = n

\* C6, amended: ceil(n/W) rows for n >= 1 and one row for n = 0; every row
\* is an array of W cells; every row but the last holds W paths and the last
\* holds n - W*(rows - 1) paths, followed by empty cells only; tiles has n
\* entries; 10 files at W = 4 give rows of 4, 4 and 2 paths.
C6_ListRowCounts ==
    layoutCall.op = "layoutList" =>
        LET n == Len(inputPathInfos)
            w == layoutCall.width
            rows == IF n = 0 THEN 1 ELSE CeilDiv(n, w)
        IN  /\ Len(layout.tileset) = rows
            /\ \A y1 \in DOMAIN layout.tileset :
                  LET count == IF y1 < rows THEN w ELSE n - w * (rows - 1)
                  IN  /\ Len(layout.tileset[y1]) = w
                      /\ PathCount(layout.tileset[y1]) = count
                      /\ \A x1 \in DOMAIN layout.tileset[y1] :
                             (layout.tileset[y1][x1] # Null) <=> (x1 <= count)
            /\ Len(layout.tiles) = n
            /\ (n = 10 /\ w = 4) =>
                  [y1 \in DOMAIN layout.tileset |-> PathCount(layout.tileset[y1])]
                      = <<4, 4, 2>>

\* Ten files laid out four to a row.
C6_Witness ==
    /\ layoutCall.op = "layoutList"
    /\ inputPathInfos = ExampleTen
    /\ layoutCall.width = 4
    /\ Len(layout.tileset) = 3
    /\ layout.tileset[3][3] = Null
    /\ Len(layout.tiles) = 10

\* C7: layoutList puts the i-th input file (from 0) at
\* tileset[floor(i/W)][i mod W], and its tiles entry, the i-th, has
\* x = i mod W and y = floor(i/W).
C7_ListRowMajor ==
    layoutCall.op = "layoutList" =>
        LET w == layoutCall.width
        IN  /\ Len(layout.tiles) = Len(inputPathInfos)
            /\ \A i \in DOMAIN inputPathInfos :
                  LET r == (i - 1) \div w
                      c == (i - 1) % w
                  IN  /\ layout.tileset[r + 1][c + 1] = inputPathInfos[i].path
                      /\ layout.tiles[i].path = inputPathInfos[i].path
                      /\ layout.tiles[i].x = c
                      /\ layout.tiles[i].y = r

\* Three files at width 2: the third starts the second row.
C7_Witness ==
    /\ layoutCall.op = "layoutList"
    /\ layoutCall.width = 2
    /\ Len(inputPathInfos) = 3
    /\ layout.tileset[2][1] = inputPathInfos[3].path
    /\ layout.tiles[3].x = 0 /\ layout.tiles[3].y = 1

\* The positions at which a maximal run of files of one directory starts.
RunStarts(pathInfos) ==
    {i \in DOMAIN pathInfos : i = 1 \/ pathInfos[i].dirname # pathInfos[i - 1].dirname}

\* The k-th maximal run, as the list of its paths.
RunPaths(pathInfos, k) ==
    LET starts == Ascending(RunStarts(pathInfos))
        first  == starts[k]
        last   == IF k = Len(starts) THEN Len(pathInfos) ELSE starts[k + 1] - 1
    IN  [j \in 1..(last - first + 1) |-> pathInfos[first + j - 1].path]

\* C8: layoutSequences makes one row per maximal run of consecutive files
\* of one directory, in the order of the runs, the row holding the run's
\* files from column 0 in input order; every input file is in exactly one
\* cell; the k-th sequences entry has row k and the run's size as length.
C8_RowsAreRuns ==
    layoutCall.op = "layoutSequences" =>
        LET runs == Cardinality(RunStarts(inputPathInfos))
        IN  /\ Len(layout.tileset) = runs
            /\ Len(layout.sequences) = runs
            /\ \A k \in 1..runs :
                  /\ layout.tileset[k] = RunPaths(inputPathInfos, k)
                  /\ layout.sequences[k].row = k - 1
                  /\ layout.sequences[k].length = Len(RunPaths(inputPathInfos, k))
            /\ \A p \in InputPaths :
                  Cardinality({c \in (DOMAIN layout.tileset) \X (1..Len(inputPathInfos)) :
                                  /\ c[2] \in DOMAIN layout.tileset[c[1]]
                                  /\ layout.tileset[c[1]][c[2]] = p}) = 1

\* Files of a, then b, then a again: three runs, three rows.
C8_Witness ==
    /\ layoutCall.op = "layoutSequences"
    /\ Len(inputPathInfos) = 3
    /\ inputPathInfos[1].dirname = inputPathInfos[3].dirname
    /\ inputPathInfos[1].dirname # inputPathInfos[2].dirname
    /\ Len(layout.sequences) = 3
    /\ layout.sequences[3].row = 2

\* The directory segments of a file, none for a file of the working directory.
DirSegments(pathInfo) == IF pathInfo.dirnames = <<<<".">>>> THEN <<>> ELSE pathInfo.dirnames

\* A path as C9 calls it malformed: no angle segment (no directory at all),
\* an innermost directory that is not a number, or no name segment above it.
Malformed(pathInfo) ==
    LET segs == DirSegments(pathInfo)
    IN  \/ segs = <<>>
        \/ NumberIsNaN(segs[Len(segs)])
        \/ Len(segs) < 2

InTileset(p) == \E y1 \in DOMAIN layout.tileset : p \in Range(layout.tileset[y1])

\* C9: layoutAnimations warns about each malformed file and leaves it out
\* of tileset and tiles, and places every other file of the input.
C9_OnlyMalformedSkipped ==
    layoutCall.op = "layoutAnimations" =>
        \A i \in DOMAIN inputPathInfos :
            LET p == inputPathInfos[i].path
            IN  IF Malformed(inputPathInfos[i])
                THEN p \in Range(layout.warnings) /\ ~InTileset(p) /\ TilesOf(p) = {}
                ELSE InTileset(p) /\ TilesOf(p) # {}


(***************************************************************************)
(* The path walker as a state machine: one walkPaths call on a directory   *)
(* tree.  Every walkPath invocation is <<i, filePath>>, i the index of the *)
(* root it descends from; it is suspended in its stat ("stat"), in its     *)
(* readdir ("readdir") or in Promise.all over its children ("join"), or    *)
(* has returned ("done").  stat and readdir calls complete in any order;   *)
(* what follows a completion up to the next await, the .then callbacks     *)
(* included, runs at once.                                                 *)
(***************************************************************************)
MaxRoots == 2       \* most root paths handed to walkPaths

\* /w: a/ b.png      /w/a: 1.png 01.png n.txt
TreeTies ==
    [ dirs  |-> ( WorkingDirectory :> << <<"a">>, Png(<<"b">>) >> ) @@
                ( Abs(<< <<"w">>, <<"a">> >>) :>
                      << Png1, Png(<<"0","1">>), <<"n",".","t","x","t">> >> ),
      files |-> { Abs(<< <<"w">>, Png(<<"b">>) >>),
                  Abs(<< <<"w">>, <<"a">>, Png1 >>),
                  Abs(<< <<"w">>, <<"a">>, Png(<<"0","1">>) >>),
                  Abs(<< <<"w">>, <<"a">>, <<"n",".","t","x","t">> >>) },
      roots |-> { <<"a">>, Abs(<< <<"w">>, <<"a">>, <<"n",".","t","x","t">> >>) } ]

\* /w: c/ a/      /w/c: d/ 2.png      /w/c/d: 1.png s (a socket)      /w/a: empty
TreeDeep ==
    [ dirs  |-> ( WorkingDirectory :> << <<"c">>, <<"a">> >> ) @@
                ( Abs(<< <<"w">>, <<"c">> >>) :> << <<"d">>, Png2 >> ) @@
                ( Abs(<< <<"w">>, <<"c">>, <<"d">> >>) :> << Png1, <<"s">> >> ) @@
                ( Abs(<< <<"w">>, <<"a">> >>) :> <<>> ),
      files |-> { Abs(<< <<"w">>, <<"c">>, Png2 >>),
                  Abs(<< <<"w">>, <<"c">>, <<"d">>, Png1 >>) },
      roots |-> { <<"c">>, Abs(<< <<"w">>, <<"a">> >>) } ]

\* /w: e/      /w/e: x.PNG x/ y.png c.Txt      /w/e/x: 1.png
TreeCase ==
    [ dirs  |-> ( WorkingDirectory :> << <<"e">> >> ) @@
                ( Abs(<< <<"w">>, <<"e">> >>) :>
                      << <<"x",".","P","N","G">>, <<"x">>, Png(<<"y">>),
                         <<"c",".","T","x","t">> >> ) @@
                ( Abs(<< <<"w">>, <<"e">>, <<"x">> >>) :> << Png1 >> ),
      files |-> { Abs(<< <<"w">>, <<"e">>, <<"x",".","P","N","G">> >>),
                  Abs(<< <<"w">>, <<"e">>, Png(<<"y">>) >>),
                  Abs(<< <<"w">>, <<"e">>, <<"c",".","T","x","t">> >>),
                  Abs(<< <<"w">>, <<"e">>, <<"x">>, Png1 >>) },
      roots |-> { <<"e","/","x">>, Abs(<< <<"w">>, <<"e">>, <<"c",".","T","x","t">> >>) } ]

Trees == {TreeTies, TreeDeep, TreeCase}

\* The lists of at most n elements of S.
RECURSIVE SeqsUpTo(_, _)
SeqsUpTo(S, n) ==
    IF n = 0 THEN {<<>>}
    ELSE LET shorter == SeqsUpTo(S, n - 1)
         IN  shorter \cup {Append(q, x) : q \in shorter, x \in S}

ExtensionChoices == {NullExtensions, Extensions(DefaultExtensions),
                     Extensions(<< <<"P","N","G">> >>)}

\* The paths arguments: the working directory alone, or up to MaxRoots of
\* the tree's roots (a plain name, an absolute path), repeats allowed.
RootLists(tree) == {<<WorkingDirectory>>} \cup SeqsUpTo(tree.roots, MaxRoots)

RootPath(i) == resolveRoot(WorkingDirectory, walkArgs.paths[i])
RootIds     == {<<i, RootPath(i)>> : i \in DOMAIN walkArgs.paths}
IsTop(id)   == id[2] = RootPath(id[1])
ParentOf(id) == <<id[1], pathDirname(id[2])>>
ChildrenOf(id) ==
    {<<id[1], readdirResolved(fsTree, id[2])[k]>> : k \in DOMAIN fsTree.dirs[id[2]]}

\* walkPath invocation id returns result: its caller's .then pushes result
\* on the caller's list, and a caller whose promises are then all fulfilled
\* returns its walkedFilePaths in turn.
RECURSIVE resolveWalk(_, _, _)
resolveWalk(st, id, result) ==
    LET pc1 == [st.pc EXCEPT ![id] = "done"]
    IN  IF IsTop(id)
        THEN [pc |-> pc1, walked |-> st.walked, filePaths |-> st.filePaths \o result]
        ELSE LET parent  == ParentOf(id)
                 walked1 == [st.walked EXCEPT ![parent] = @ \o result]
                 st1     == [pc |-> pc1, walked |-> walked1, filePaths |-> st.filePaths]
             IN  IF \A c \in ChildrenOf(parent) : pc1[c] = "done"
                 THEN resolveWalk(st1, parent, walked1[parent])
                 ELSE st1

\* Mutant of rejectWalk: the failed invocation counts as one that returned
\* no paths.
rejectWalkSettled(st, id) ==
    [resolveWalk(st, id, <<>>) EXCEPT !.pc[id] = "failed"]

\* The await of invocation id (its stat, its readdir) throws: its promise is
\* rejected, so is the promise its caller chained on it, and Promise.all of
\* the caller rejects at once: the caller, waiting in "join", throws in
\* turn ("rejected").
RECURSIVE rejectWalk(_, _)
rejectWalk(st, id) ==
    LET pc1 == [st.pc EXCEPT ![id] = IF @ = "join" THEN "rejected" ELSE "failed"]
        st1 == [st EXCEPT !.pc = pc1]
    IN  IF IsTop(id) THEN st1
        ELSE IF pc1[ParentOf(id)] = "join" THEN rejectWalk(st1, ParentOf(id))
        ELSE st1

\* The state after a completion, and the end of walkPaths: it throws once a
\* root promise is rejected, and returns once every root promise is
\* fulfilled.
WalkStep(st) ==
    /\ walkPc' = st.pc
    /\ walked' = st.walked
    /\ filePaths' = st.filePaths
    /\ walkResult' = IF walkResult.threw \/ walkResult.done THEN walkResult
                     ELSE IF \E id \in RootIds : st.pc[id] \in {"failed", "rejected"}
                     THEN [done |-> FALSE, threw |-> TRUE, pathInfos |-> <<>>]
                     ELSE IF \A id \in RootIds : st.pc[id] = "done"
                     THEN [done |-> TRUE, threw |-> FALSE,
                           pathInfos |-> walkFinish(WorkingDirectory, st.filePaths)]
                     ELSE walkResult
    /\ UNCHANGED <<fsTree, walkArgs, sortVars, layoutVars, compositeVars, listVars, sequenceVars>>

WalkState == [pc |-> walkPc, walked |-> walked, filePaths |-> filePaths]

\* walkPaths(paths, extensions): every root's walkPath is called and runs
\* up to its stat.
WalkPathsCall(paths, extensions) ==
    /\ ~walkArgs.called
    /\ walkArgs' = [called |-> TRUE, paths |-> paths,
                    extensions |-> lowerExtensions(extensions),
                    extensionsGiven |-> extensions]
    /\ LET ids == {<<i, resolveRoot(WorkingDirectory, paths[i])>> : i \in DOMAIN paths}
       IN  /\ walkPc' = [id \in ids |-> "stat"]
           /\ walked' = [id \in ids |-> <<>>]
    /\ filePaths' = <<>>
    /\ walkResult' = IF paths = <<>>
                     THEN [done |-> TRUE, threw |-> FALSE,
                           pathInfos |-> walkFinish(WorkingDirectory, <<>>)]
                     ELSE walkResult
    /\ UNCHANGED <<fsTree, sortVars, layoutVars, compositeVars, listVars, sequenceVars>>

\* The stat of invocation id completes.  A directory goes on to readdir; a
\* regular file returns itself or, filtered out, nothing; anything else
\* returns nothing.
StatDone(id) ==
    /\ walkPc[id] = "stat"
    /\ IF isDirectory(fsTree, id[2])
       THEN WalkStep([WalkState EXCEPT !.pc[id] = "readdir"])
       ELSE IF isFile(fsTree, id[2])
       THEN WalkStep(resolveWalk(WalkState, id,
                                 walkFile(id[2], walkArgs.extensions, IsTop(id))))
       ELSE WalkStep(resolveWalk(WalkState, id, <<>>))

\* The readdir of invocation id completes: walkPath is called on every entry
\* and runs up to its stat; the invocation waits for them all.
ReaddirDone(id) ==
    /\ walkPc[id] = "readdir"
    /\ IF ChildrenOf(id) = {}
       THEN WalkStep(resolveWalk(WalkState, id, <<>>))
       ELSE WalkStep([ pc |-> [c \in ChildrenOf(id) |-> "stat"]
                                  @@ [walkPc EXCEPT ![id] = "join"],
                       walked |-> [c \in ChildrenOf(id) |-> <<>>] @@ walked,
                       filePaths |-> filePaths ])

\* The stat of invocation id fails.
StatFail(id) ==
    /\ walkPc[id] = "stat"
    /\ WalkStep(rejectWalk(WalkState, id))

\* The readdir of invocation id fails.
ReaddirFail(id) ==
    /\ walkPc[id] = "readdir"
    /\ WalkStep(rejectWalk(WalkState, id))

WalkInit ==
    /\ fsTree \in Trees
    /\ walkArgs = NoWalkArgs /\ walkPc = <<>> /\ walked = <<>>
    /\ filePaths = <<>> /\ walkResult = NoWalkResult
    /\ SortIdle /\ LayoutIdle /\ CompositeIdle /\ ListIdle /\ SequenceIdle

\* Once walkPaths has thrown, the sub-walks still under way are not
\* followed further: nothing they do reaches the caller.
WalkNext ==
    \/ \E paths \in RootLists(fsTree), extensions \in ExtensionChoices :
           WalkPathsCall(paths, extensions)
    \/ ~walkResult.threw /\ \E id \in DOMAIN walkPc : StatDone(id)
    \/ ~walkResult.threw /\ \E id \in DOMAIN walkPc : ReaddirDone(id)
    \/ ~walkResult.threw /\ \E id \in DOMAIN walkPc : StatFail(id)
    \/ ~walkResult.threw /\ \E id \in DOMAIN walkPc : ReaddirFail(id)

SpecWalk == WalkInit /\ [][WalkNext]_vars


(***************************************************************************)
(* Claims on the path walker                                               *)
(***************************************************************************)
\* What walkPath returns when every stat and readdir completes in the order
\* it was issued: the files in directory-listing order, depth first.
RECURSIVE InOrderWalk(_, _, _, _)
RECURSIVE InOrderWalkAll(_, _, _)
InOrderWalk(tree, filePath, extensions, top) ==
    IF isDirectory(tree, filePath)
    THEN InOrderWalkAll(tree, readdirResolved(tree, filePath), extensions)
    ELSE IF isFile(tree, filePath) THEN walkFile(filePath, extensions, top)
    ELSE <<>>
InOrderWalkAll(tree, filePathList, extensions) ==
    IF filePathList = <<>> THEN <<>>
    ELSE InOrderWalk(tree, filePathList[1], extensions, FALSE)
             \o InOrderWalkAll(tree, Tail(filePathList), extensions)

RECURSIVE InOrderRoots(_)
InOrderRoots(i) ==
    IF i > Len(walkArgs.paths) THEN <<>>
    ELSE InOrderWalk(fsTree, RootPath(i), walkArgs.extensions, TRUE) \o InOrderRoots(i + 1)

\* C5: whatever the order in which the stat and readdir calls complete,
\* walkPaths returns the PathInfo list it returns when they complete in the
\* order they were issued.
C5_WalkOrderIndependent ==
    walkResult.done =>
        walkResult.pathInfos = walkFinish(WorkingDirectory, InOrderRoots(1))


(***************************************************************************)
(* C15                                                                     *)
(***************************************************************************)
ReturnedPaths == {walkResult.pathInfos[i].path : i \in DOMAIN walkResult.pathInfos}

\* f lies below the directory d.
Below(d, f) ==
    /\ Len(f) > Len(d) + 1
    /\ SubSeq(f, 1, Len(d)) = d
    /\ f[Len(d) + 1] = "/"

\* The extension of a path, lower-cased: what follows the last dot of its
\* last segment, unless that dot starts the segment or there is none.
LowerExtensionOf(f) ==
    LET name == LastSegment(f)
        dots == {i \in DOMAIN name : name[i] = "."}
    IN  IF dots = {} \/ dots = {1} THEN <<>>
        ELSE LET last == CHOOSE i \in dots : \A j \in dots : j <= i
             IN  toLowerCase(SubSeq(name, last + 1, Len(name)))

Allowed(f) ==
    \/ walkArgs.extensionsGiven.isNull
    \/ \E k \in DOMAIN walkArgs.extensionsGiven.list :
           toLowerCase(walkArgs.extensionsGiven.list[k]) = LowerExtensionOf(f)

\* C15: of the regular files below a root directory, walkPaths returns
\* those and only those that the allow-list admits (absent, or holding the
\* file's extension, both lower-cased); a root that is a regular file is
\* returned whatever its extension.
C15_ExtensionFilter ==
    walkResult.done =>
        \A f \in fsTree.files :
            f \in ReturnedPaths <=>
                \/ \E i \in DOMAIN walkArgs.paths : RootPath(i) = f
                \/ /\ \E i \in DOMAIN walkArgs.paths :
                          isDirectory(fsTree, RootPath(i)) /\ Below(RootPath(i), f)
                   /\ Allowed(f)

\* The whole of TreeCase walked with the allow-list <<"PNG">>: x.PNG, y.png
\* and x/1.png are returned, c.Txt is not.
C15_Witness ==
    /\ walkResult.done
    /\ fsTree = TreeCase
    /\ walkArgs.paths = <<WorkingDirectory>>
    /\ walkArgs.extensionsGiven = Extensions(<< <<"P","N","G">> >>)
    /\ Cardinality(ReturnedPaths) = 3
    /\ Abs(<< <<"w">>, <<"e">>, <<"x",".","P","N","G">> >>) \in ReturnedPaths
    /\ Abs(<< <<"w">>, <<"e">>, <<"c",".","T","x","t">> >>) \notin ReturnedPaths


(***************************************************************************)
(* C16                                                                     *)
(***************************************************************************)
\* C16: once the stat or the readdir of a visited path has failed, the
\* walkPaths call has ended in an error and has returned no PathInfo list.
C16_FailurePropagates ==
    (\E id \in DOMAIN walkPc : walkPc[id] = "failed") =>
        /\ walkResult.threw
        /\ ~walkResult.done
        /\ walkResult.pathInfos = <<>>

\* A stat or readdir failed after another root's walk had completed and
\* pushed the paths it found.
C16_Witness ==
    /\ \E id \in DOMAIN walkPc : walkPc[id] = "failed"
    /\ \E id \in RootIds : walkPc[id] = "done"
    /\ filePaths # <<>>
    /\ walkResult.threw


(***************************************************************************)
(* C20                                                                     *)
(***************************************************************************)
DistinctDirnames(pathInfos) == {pathInfos[i].dirname : i \in DOMAIN pathInfos}

\* C20: in the list walkPaths returns, the files of one directory are
\* contiguous, and layoutSequences of that list has one row and one
\* sequences entry per directory that holds a returned file.
C20_DirectoriesContiguous ==
    walkResult.done =>
        LET pathInfos == walkResult.pathInfos
            seqLayout == layoutSequences(pathInfos, FALSE)
        IN  /\ \A i, j \in DOMAIN pathInfos :
                   (i < j /\ pathInfos[i].dirname = pathInfos[j].dirname)
                       => \A k \in i..j : pathInfos[k].dirname = pathInfos[i].dirname
            /\ Len(seqLayout.tileset) = Cardinality(DistinctDirnames(pathInfos))
            /\ Len(seqLayout.sequences) = Cardinality(DistinctDirnames(pathInfos))


(***************************************************************************)
(* One SmartSorter instance used for many compare calls: the cache grows   *)
(* with every string the instance has seen.                                *)
(***************************************************************************)
MaxCached == 3       \* most strings one instance caches before it is dropped

\* The words of directionMap's four directions as the specification lists
\* them.
UpWords    == { <<"u","p">>, <<"t","o","p">>, <<"n","o","r","t","h">>,
                <<"f","o","r","w","a","r","d">> }
DownWords  == { <<"d","o","w","n">>, <<"b","o","t","t","o","m">>,
                <<"s","o","u","t","h">>, <<"b","a","c","k","w","a","r","d">> }
LeftWords  == { <<"l","e","f","t">>, <<"w","e","s","t">> }
RightWords == { <<"r","i","g","h","t">>, <<"e","a","s","t">> }
\* The strings compared: words of every direction, one of them capitalised,
\* a further key of directionMap (front), and a plain word.
WordPool ==
    {Png(w) : w \in { <<"u","p">>, <<"n","o","r","t","h">>, <<"t","o","p">>,
                      <<"f","o","r","w","a","r","d">>, <<"N","o","r","t","h">>,
                      <<"d","o","w","n">>, <<"s","o","u","t","h">>,
                      <<"b","o","t","t","o","m">>,
                      <<"l","e","f","t">>, <<"w","e","s","t">>, <<"e","a","s","t">>,
                      <<"f","r","o","n","t">>, <<"a","n","i","m">> }}

\* sorter.compare(a, b) on an instance that has already been used
CachedCompare(a, b) ==
    /\ Cardinality(DOMAIN segmentListCache \cup {a, b}) <= MaxCached
    /\ SorterCompare(a, b)

CacheInit == SortIdle /\ LayoutIdle /\ WalkIdle /\ CompositeIdle /\ ListIdle /\ SequenceIdle

CacheNext ==
    \/ \E a, b \in WordPool : CachedCompare(a, b)
    \/ NewSorter

SpecCache == CacheInit /\ [][CacheNext]_vars


(***************************************************************************)
(* C11                                                                     *)
(***************************************************************************)
\* The direction a word belongs to by the stated vocabulary, as a list:
\* <<ordinal>>, or <<>> for a word outside the vocabulary.
VocabularyDirection(word) ==
    LET w == toLowerCase(word)
    IN  IF w \in UpWords THEN <<0>>
        ELSE IF w \in RightWords THEN <<1>>
        ELSE IF w \in DownWords THEN <<2>>
        ELSE IF w \in LeftWords THEN <<3>>
        ELSE <<>>

\* The word of a string word.png of the pool.
WordOf(str) == SubSeq(str, 1, Len(str) - 4)

\* C11: exactly the words of the direction vocabulary are tagged Direction
\* with their direction's ordinal; two strings that differ by exchanging two
\* words of one direction compare equal, and compare the same way against
\* any string whose word is not a direction.
C11_DirectionWordsTagged ==
    /\ \A str \in DOMAIN segmentListCache :
           LET d == VocabularyDirection(WordOf(str))
               first == segmentListCache[str][1]
           IN  IF d # <<>>
               THEN first = <<SegDirection, d[1]>>
               ELSE first[1] = SegWord
    /\ sortCall.op = "compare" =>
         LET a == sortCall.args[1]
             b == sortCall.args[2]
             da == VocabularyDirection(WordOf(a))
             db == VocabularyDirection(WordOf(b))
         IN  /\ (da # <<>> /\ da = db) => sortCall.result = 0
             /\ (da # <<>> /\ db = <<>>) =>
                    \A a2 \in WordPool :
                        VocabularyDirection(WordOf(a2)) = da
                            => freshCompare(a2, b) = sortCall.result


(***************************************************************************)
(* C12                                                                     *)
(***************************************************************************)
\* C12: whatever calls were made before on the instance, compare(a, b)
\* returns what compare(a, b) returns on a freshly created instance.
C12_CacheTransparent ==
    sortCall.op = "compare" =>
        sortCall.result = freshCompare(sortCall.args[1], sortCall.args[2])

\* A compare that did not return 0, on an instance whose cache holds a string
\* of an earlier call besides the two just compared.
C12_Witness ==
    /\ sortCall.op = "compare"
    /\ DOMAIN segmentListCache \ Range(sortCall.args) # {}
    /\ sortCall.args[1] # sortCall.args[2]
    /\ sortCall.result # 0


(***************************************************************************)
(* compositor.ts: composite and generateOverlay.  The image library is     *)
(* outside the program: an image is what was asked of the library, the     *)
(* canvas as a map from pixels to the tile painted there last.             *)
(***************************************************************************)
OutputTypes == {"png", "jpeg", "webp", "tiff"}

\* An optional number: minCountX?: number
Absent   == [given |-> FALSE, value |-> 0]
Given(n) == [given |-> TRUE, value |-> n]

\* opt ?? 0
orZero(opt) == IF opt.given THEN opt.value ELSE 0

Max(a, b) == IF a > b THEN a ELSE b

\* let countY = Math.floor(Math.max(0, minCountY ?? 0, inputFiles.length))
countYOf(inputFiles, minCountY) == Max(Max(0, orZero(minCountY)), Len(inputFiles))

\* let countX = Math.floor(Math.max(0, minCountX ?? 0)), raised to the length
\* of every longer row.
RECURSIVE countXFrom(_, _, _)
countXFrom(inputFiles, y, countX) ==
    IF y > Len(inputFiles) THEN countX
    ELSE countXFrom(inputFiles, y + 1,
                    IF Len(inputFiles[y]) > countX THEN Len(inputFiles[y]) ELSE countX)

\* Mutant of countXOf: the rows do not raise the minimum.
countXMinimum(inputFiles, minCountX) == Max(0, orZero(minCountX))

countXOf(inputFiles, minCountX) == countXFrom(inputFiles, 1, Max(0, orZero(minCountX)))

\* The resized tile: sharp(filePath).resize({ width, height, ... }) encoded.
resizedTile(filePath, width, height) ==
    [path |-> filePath, width |-> width, height |-> height]

\* generateOverlay(filePath, width, height, x, y, fit, kernel) for a path
\* that is not null: the overlay it resolves to.
generateOverlay(filePath, width, height, x, y) ==
    [input |-> resizedTile(filePath, width, height),
     top |-> y * height, left |-> x * height]

\* The generateOverlay calls composite makes: one per cell that holds a path,
\* of the rows that exist among the first countY and the first countX cells
\* of each.  x and y count from 0.
overlayCalls(inputFiles, countX, countY) ==
    { [x |-> x, y |-> y, filePath |-> inputFiles[y + 1][x + 1]] :
        <<x, y>> \in { c \in (0..(countX - 1)) \X (0..(countY - 1)) :
                         /\ c[2] + 1 <= Len(inputFiles)
                         /\ c[1] + 1 <= Len(inputFiles[c[2] + 1])
                         /\ inputFiles[c[2] + 1][c[1] + 1] # Null } }

\* Whether an overlay covers the pixel (px, py).
Covers(overlay, px, py) ==
    /\ overlay.left <= px /\ px < overlay.left + overlay.input.width
    /\ overlay.top <= py  /\ py < overlay.top + overlay.input.height

\* image.composite(overlayList) on a transparent canvas: every pixel shows
\* the last overlay of the list that covers it, or nothing (Null).
composited(imageWidth, imageHeight, overlayList) ==
    [ p \in (0..(imageWidth - 1)) \X (0..(imageHeight - 1)) |->
        LET over == {i \in DOMAIN overlayList : Covers(overlayList[i], p[1], p[2])}
        IN  IF over = {} THEN Null
            ELSE overlayList[CHOOSE i \in over : \A j \in over : j <= i].input.path ]

\* The steps that encode the image: image.png(), image.jpeg(), image.webp()
\* or image.tiff(), then image.toBuffer().
encodeSteps(outputType) == <<outputType, "toBuffer">>

\* writeMap(file, useJPEG, map) of the earlier output.ts: its steps on map.
writeMapSteps(useJPEG) ==
    IF ~useJPEG THEN <<"png", "toBuffer", "writeFile">>
    ELSE <<"flatten", "jpeg", "toBuffer", "writeFile">>

\* Mutant of overlayRejected: the failed tile is left out, composite goes on.
overlaySkipped(result, call) == result

\* A generateOverlay promise is rejected: so is the promise chained on it,
\* Promise.all rejects, and composite's await throws.
overlayRejected(result, call) ==
    [state |-> "threw", error |-> "overlay"]

\* Mutant of tilemapInfo: the image width taken from the tile height.
tilemapInfoSquare(imageWidth, imageHeight, countX, countY, width, height) ==
    [width |-> height * countX, height |-> imageHeight,
     countX |-> countX, countY |-> countY,
     tileWidth |-> width, tileHeight |-> height]

\* const info: TilemapInfo = { width: imageWidth, ... }
tilemapInfo(imageWidth, imageHeight, countX, countY, width, height) ==
    [width |-> imageWidth, height |-> imageHeight,
     countX |-> countX, countY |-> countY,
     tileWidth |-> width, tileHeight |-> height]


(***************************************************************************)
(* One composite call as a state machine: the call up to its await of the  *)
(* overlay promises, the completion of each generateOverlay call in any    *)
(* order, and the rest of composite once all have completed.               *)
(***************************************************************************)
MaxTileSize == 2     \* largest tile width and height, in pixels
MaxMinCount == 2     \* largest minimum tile count given

TileA == Png(<<"a">>)
TileB == Png(<<"b">>)
TileC == Png(<<"c">>)

CompositeTilesets ==
    { <<>>,
      << <<>> >>,
      << <<>>, <<>> >>,
      << <<Null, Null>> >>,
      << <<TileA>> >>,
      << <<TileA, TileB>> >>,
      << <<TileA, Null, TileB>> >>,
      << <<TileA>>, <<TileB, TileC>> >>,
      << <<TileA, TileB>>, <<Null, TileC>> >> }

TileSizes     == 1..MaxTileSize
MinCounts     == {Absent} \cup {Given(n) : n \in 0..MaxMinCount}
OutputChoices == {"png", "jpeg", "bmp"}

\* composite(inputFiles, outputType, width, height, fit, kernel, minCountX,
\* minCountY), up to await Promise.all(promises)
CompositeCall(inputFiles, outputType, width, height, minCountX, minCountY) ==
    /\ ~compositeArgs.called
    /\ LET countY == countYOf(inputFiles, minCountY)
           countX == countXOf(inputFiles, minCountX)
       IN  /\ compositeArgs' =
                 [called |-> TRUE, inputFiles |-> inputFiles,
                  outputType |-> outputType, width |-> width, height |-> height,
                  minCountX |-> minCountX, minCountY |-> minCountY,
                  countX |-> countX, countY |-> countY]
           /\ promises' = overlayCalls(inputFiles, countX, countY)
    /\ overlays' = <<>>
    /\ compositeResult' = [state |-> "pending"]
    /\ UNCHANGED <<rejectedOverlays, outputFiles, sortVars, layoutVars, walkVars, listVars, sequenceVars>>

\* One generateOverlay call completes, and its then-callback pushes the
\* overlay.
OverlayDone(call) ==
    /\ call \in promises
    /\ compositeResult.state = "pending"
    /\ promises' = promises \ {call}
    /\ overlays' = Append(overlays,
                          generateOverlay(call.filePath, compositeArgs.width,
                                          compositeArgs.height, call.x, call.y))
    /\ UNCHANGED <<compositeArgs, compositeResult, rejectedOverlays, outputFiles,
                   sortVars, layoutVars, walkVars, listVars, sequenceVars>>

\* One generateOverlay call fails: the tile cannot be decoded or resized, and
\* await image.png().toBuffer() throws.  Once composite has thrown, the
\* calls still under way are not followed further.
OverlayFail(call) ==
    /\ call \in promises
    /\ compositeResult.state = "pending"
    /\ promises' = promises \ {call}
    /\ rejectedOverlays' = rejectedOverlays \cup {call}
    /\ compositeResult' = overlayRejected(compositeResult, call)
    /\ UNCHANGED <<compositeArgs, overlays, outputFiles, sortVars, layoutVars, walkVars, listVars, sequenceVars>>

\* composite after await Promise.all(promises).  Creating a canvas that is
\* not at least 1 by 1 is a request the program leaves to the image library:
\* the library may reject it or not.
CompositeResume(rejected) ==
    /\ compositeArgs.called
    /\ compositeResult.state = "pending"
    /\ promises = {}
    /\ LET imageWidth  == compositeArgs.width * compositeArgs.countX
           imageHeight == compositeArgs.height * compositeArgs.countY
           canvas == [width |-> imageWidth, height |-> imageHeight]
       IN  /\ rejected => (imageWidth < 1 \/ imageHeight < 1)
           /\ compositeResult' =
                IF rejected
                THEN [state |-> "threw", error |-> "create", canvas |-> canvas]
                ELSE IF compositeArgs.outputType \notin OutputTypes
                THEN [state |-> "threw", error |-> "Invalid OutputType",
                      canvas |-> canvas]
                ELSE [state |-> "returned", canvas |-> canvas,
                      data |-> [type |-> compositeArgs.outputType,
                                steps |-> <<"create", "composite">>
                                            \o encodeSteps(compositeArgs.outputType),
                                pixels |-> composited(imageWidth, imageHeight, overlays)],
                      info |-> tilemapInfo(imageWidth, imageHeight,
                                           compositeArgs.countX, compositeArgs.countY,
                                           compositeArgs.width, compositeArgs.height)]
    /\ UNCHANGED <<compositeArgs, promises, overlays, rejectedOverlays, outputFiles,
                   sortVars, layoutVars, walkVars, listVars, sequenceVars>>

\* cli main after composite has returned: await fs.writeFile(outputPath, data)
CliWriteImage ==
    /\ compositeResult.state = "returned"
    /\ outputFiles = <<>>
    /\ outputFiles' = <<"image">>
    /\ UNCHANGED <<compositeArgs, promises, overlays, compositeResult,
                   rejectedOverlays, sortVars, layoutVars, walkVars, listVars, sequenceVars>>

\* cli main, outputSettings.outputJSON being set:
\* await fs.writeFile(outputJSON, jsonData, "utf-8")
CliWriteJSON ==
    /\ outputFiles = <<"image">>
    /\ outputFiles' = <<"image", "json">>
    /\ UNCHANGED <<compositeArgs, promises, overlays, compositeResult,
                   rejectedOverlays, sortVars, layoutVars, walkVars, listVars, sequenceVars>>

CompositeInit == SortIdle /\ LayoutIdle /\ WalkIdle /\ CompositeIdle /\ ListIdle /\ SequenceIdle

CompositeNext ==
    \/ \E inputFiles \in CompositeTilesets, outputType \in OutputChoices,
          width \in TileSizes, height \in TileSizes,
          minCountX \in MinCounts, minCountY \in MinCounts :
           CompositeCall(inputFiles, outputType, width, height, minCountX, minCountY)
    \/ \E call \in promises : OverlayDone(call)
    \/ \E call \in promises : OverlayFail(call)
    \/ \E rejected \in BOOLEAN : CompositeResume(rejected)
    \/ CliWriteImage
    \/ CliWriteJSON

SpecComposite == CompositeInit /\ [][CompositeNext]_vars


(***************************************************************************)
(* C13                                                                     *)
(***************************************************************************)
CompositeEnded == compositeArgs.called /\ compositeResult.state # "pending"

C14_InfoSizeExact ==
    compositeResult.state = "returned" =>
        /\ compositeResult.info.width
               = compositeResult.info.tileWidth * compositeResult.info.countX
        /\ compositeResult.info.height
               = compositeResult.info.tileHeight * compositeResult.info.countY

\* A returned call with tiles that are not square, on a grid that is not
\* square and wider than its longest row.
C14_Witness ==
    /\ compositeResult.state = "returned"
    /\ compositeResult.info.tileWidth = 1 /\ compositeResult.info.tileHeight = 2
    /\ compositeResult.info.countX = 2 /\ compositeResult.info.countY = 1
    /\ compositeArgs.inputFiles = << <<TileA>> >>
    /\ compositeResult.info.width = 2 /\ compositeResult.info.height = 2


(***************************************************************************)
(* C18                                                                     *)
(***************************************************************************)
\* The cells of the tileset that hold a path: <<column, row>>, from 0.
TileCells ==
    { c \in (0..(compositeArgs.countX - 1)) \X (0..(compositeArgs.countY - 1)) :
        /\ c[2] + 1 <= Len(compositeArgs.inputFiles)
        /\ c[1] + 1 <= Len(compositeArgs.inputFiles[c[2] + 1])
        /\ compositeArgs.inputFiles[c[2] + 1][c[1] + 1] # Null }

CellPath(c) == compositeArgs.inputFiles[c[2] + 1][c[1] + 1]

\* C18: the tile of every non-empty cell at row r, column c is placed at
\* left = c * tileWidth, top = r * tileHeight, whatever the tile size.
C18_OffsetsByTileSize ==
    compositeArgs.called =>
        /\ \A i \in DOMAIN overlays :
               \E c \in TileCells :
                   /\ overlays[i].input.path = CellPath(c)
                   /\ overlays[i].left = c[1] * compositeArgs.width
                   /\ overlays[i].top = c[2] * compositeArgs.height
        /\ compositeResult.state = "returned" =>
               \A c \in TileCells :
                   \E i \in DOMAIN overlays : overlays[i].input.path = CellPath(c)


(***************************************************************************)
(* C19                                                                     *)
(***************************************************************************)
Disjoint(o1, o2) ==
    \/ o1.left + o1.input.width <= o2.left
    \/ o2.left + o2.input.width <= o1.left
    \/ o1.top + o1.input.height <= o2.top
    \/ o2.top + o2.input.height <= o1.top

InsideCanvas(o) ==
    /\ 0 <= o.left /\ o.left + o.input.width <= compositeArgs.countX * compositeArgs.width
    /\ 0 <= o.top  /\ o.top + o.input.height <= compositeArgs.countY * compositeArgs.height

\* The overlays as they are pushed when the generateOverlay calls complete
\* in the order they were made: row by row, left to right.
OverlaysInCallOrder ==
    LET rank(c) == Cardinality({d \in TileCells :
                       d[2] < c[2] \/ (d[2] = c[2] /\ d[1] <= c[1])})
    IN  [k \in 1..Cardinality(TileCells) |->
            LET c == CHOOSE d \in TileCells : rank(d) = k
            IN  generateOverlay(CellPath(c), compositeArgs.width,
                                compositeArgs.height, c[1], c[2])]

\* C19: the rectangles of the placed tiles are pairwise disjoint and inside
\* the canvas, and the image returned is the one obtained when the overlay
\* tasks complete in the order they were started.
C19_PlacementsDisjoint ==
    compositeResult.state = "returned" =>
        /\ \A i, j \in DOMAIN overlays :
               i # j => Disjoint(overlays[i], overlays[j])
        /\ \A i \in DOMAIN overlays : InsideCanvas(overlays[i])
        /\ compositeResult.data.pixels
               = composited(compositeResult.canvas.width,
                            compositeResult.canvas.height, OverlaysInCallOrder)


(***************************************************************************)
(* C17                                                                     *)
(***************************************************************************)
\* C17: for the README's example tree the tilemap is 4 tiles wide and 3
\* rows high, and its rows are anim1's frames, then subanim1's, then
\* anim2's.
C17_ReadmeRows ==
    (inputPathInfos = ExampleReadme /\ layoutCall.op = "layoutSequences") =>
        /\ countXOf(layout.tileset, Absent) = 4
        /\ countYOf(layout.tileset, Absent) = 3
        /\ layout.tileset = <<ReadmeAnim1Paths, ReadmeSubanim1Paths, ReadmeAnim2Paths>>


(***************************************************************************)
(* C21                                                                     *)
(***************************************************************************)
\* The files layoutAnimations did not warn about, in input order, and the
\* grouping key and angle of such a file as layoutAnimations reads them off
\* its directory segments.
PlacedInfos ==
    SelectSeq(inputPathInfos,
              LAMBDA pi : \A w \in DOMAIN layout.warnings : layout.warnings[w] # pi.path)
KeyOf(pi)   == join(Tail(pi.dirnames), Slash)
AngleOf(pi) == DigitsValue(pi.dirnames[1])
AnimationKeys  == {KeyOf(PlacedInfos[i]) : i \in DOMAIN PlacedInfos}
AnimationPairs == {<<KeyOf(PlacedInfos[i]), AngleOf(PlacedInfos[i])>> : i \in DOMAIN PlacedInfos}
PairPaths(pair) ==
    LET of == SelectSeq(PlacedInfos, LAMBDA pi : <<KeyOf(pi), AngleOf(pi)>> = pair)
    IN  [i \in DOMAIN of |-> of[i].path]

LongestRow(inputFiles) ==
    IF inputFiles = <<>> THEN 0
    ELSE LET lengths == {Len(inputFiles[y]) : y \in DOMAIN inputFiles}
         IN  CHOOSE n \in lengths : \A m \in lengths : m <= n

MinimumOf(opt) == IF opt.given THEN opt.value ELSE 0

\* C22: composite works with countX = max(longest row, minimum X) and
\* countY = max(number of rows, minimum Y), an absent minimum counting as 0;
\* the canvas it creates and the TilemapInfo it returns use these counts.
C22_EffectiveGrid ==
    compositeArgs.called =>
        LET gridX == Max(LongestRow(compositeArgs.inputFiles),
                         MinimumOf(compositeArgs.minCountX))
            gridY == Max(Len(compositeArgs.inputFiles),
                         MinimumOf(compositeArgs.minCountY))
        IN  /\ compositeArgs.countX = gridX
            /\ compositeArgs.countY = gridY
            /\ "canvas" \in DOMAIN compositeResult =>
                   /\ compositeResult.canvas.width = compositeArgs.width * gridX
                   /\ compositeResult.canvas.height = compositeArgs.height * gridY
            /\ compositeResult.state = "returned" =>
                   /\ compositeResult.info.countX = gridX
                   /\ compositeResult.info.countY = gridY

\* A returned call whose grid is wider than its only row, by the minimum X,
\* and as high as its rows are many, the minimum Y being absent.
C22_Witness ==
    /\ compositeResult.state = "returned"
    /\ compositeArgs.inputFiles = << <<TileA>> >>
    /\ compositeArgs.minCountX = Given(2)
    /\ compositeArgs.minCountY = Absent
    /\ compositeResult.info.countX = 2
    /\ compositeResult.info.countY = 1

\* ---------------------------------------------------------------------------
\* C23: if decoding or resizing fails for a tile of the tileset, composite
\* ends in an error and returns no buffer, and the CLI writes neither the
\* image nor the JSON file; a call that returns has an overlay for every
\* cell that holds a path, so a failed tile is never left as a gap.
\* ---------------------------------------------------------------------------
OverlayPaths == { overlays[i].input.path : i \in DOMAIN overlays }

C23_TileFailureIsFatal ==
    /\ rejectedOverlays # {} =>
           /\ compositeResult.state = "threw"
           /\ "data" \notin DOMAIN compositeResult
           /\ outputFiles = <<>>
    /\ compositeResult.state = "returned" =>
           /\ rejectedOverlays = {}
           /\ \A c \in TileCells : CellPath(c) \in OverlayPaths
    /\ outputFiles # <<>> => compositeResult.state = "returned"

\* A tile of a tileset of two has failed after the other was placed.
C23_Witness ==
    /\ rejectedOverlays # {}
    /\ overlays # <<>>
    /\ compositeResult.state = "threw"
    /\ compositeResult.error = "overlay"
    /\ outputFiles = <<>>

\* ---------------------------------------------------------------------------
\* C24: whenever the output type is JPEG, the canvas is flattened before it
\* is JPEG-encoded: no "jpeg" step without a "flatten" step before it.
\* ---------------------------------------------------------------------------
FlattenedBeforeJPEG(steps) ==
    \A i \in DOMAIN steps :
        steps[i] = "jpeg" => \E j \in 1..(i - 1) : steps[j] = "flatten"

C24_JPEGFlattened ==
    (compositeResult.state = "returned" /\ compositeResult.data.type = "jpeg")
        => FlattenedBeforeJPEG(compositeResult.data.steps)

\* ---------------------------------------------------------------------------
\* C25: segmentize splits a string into the maximal runs of three mutually
\* exclusive classes, letters (A-Z, a-z), digits and everything else, tagged
\* Word or Direction, Number and Separator, in order of appearance; every
\* character that is neither a letter nor a digit lies in a Separator.
\* ---------------------------------------------------------------------------
IsLetter(c) == c \in Range(LowerChars) \cup Range(UpperChars)

\* The class of a character as the claim has it, named by the kind of its run.
ClassOf(c) == IF IsLetter(c) THEN SegWord
              ELSE IF IsDigit(c) THEN SegNumber ELSE SegSeparator

\* The classes of the maximal runs of a string, in order of appearance.
RECURSIVE ClassRunsFrom(_, _)
ClassRunsFrom(str, i) ==
    IF i > Len(str) THEN <<>>
    ELSE IF i > 1 /\ ClassOf(str[i - 1]) = ClassOf(str[i])
         THEN ClassRunsFrom(str, i + 1)
         ELSE <<ClassOf(str[i])>> \o ClassRunsFrom(str, i + 1)

KindClass(type) == IF type = SegDirection THEN SegWord ELSE type

C25_ThreeClasses ==
    \A str \in DOMAIN segmentListCache :
        LET segments == segmentListCache[str]
        IN  /\ [i \in DOMAIN segments |-> KindClass(segments[i][1])]
                   = ClassRunsFrom(str, 1)
            /\ \A i \in DOMAIN segments :
                   segments[i][1] = SegWord =>
                       \A k \in DOMAIN segments[i][2] : IsLetter(segments[i][2][k])

(***************************************************************************)
(* One SmartSorter instance comparing strings of every kind of segment:    *)
(* words, direction words, numbers, separators, and the empty string.      *)
(***************************************************************************)
OrderPool ==
    { <<>>,
      <<"a">>, <<"b">>, <<"2">>,
      <<"a","2">>, <<"a","1","0">>,
      <<"a","-">>, <<"a","-","b">>, <<"a",".","b">>,
      <<"l","e","f","t">>, <<"d","o","w","n">> }

OrderInit == SortIdle /\ LayoutIdle /\ WalkIdle /\ CompositeIdle /\ ListIdle /\ SequenceIdle

OrderNext ==
    \/ \E a, b \in OrderPool : CachedCompare(a, b)
    \/ NewSorter

SpecOrder == OrderInit /\ [][OrderNext]_vars

\* ---------------------------------------------------------------------------
\* C26: compareSegmentLists decides at the first position where the lists
\* differ: an exhausted list sorts first (the empty string before every
\* other string, and equal to itself); different kinds are ordered
\* Word < Direction < Number < Separator < Null; equal kinds Word, Direction
\* and Number by value; two Separators tie whatever their text.
\* ---------------------------------------------------------------------------
ValuedKinds == {SegWord, SegDirection, SegNumber}

\* Whether position i decides between the lists la and lb.
Decides(la, lb, i) ==
    \/ i > Len(la)
    \/ i > Len(lb)
    \/ la[i][1] # lb[i][1]
    \/ la[i][1] \in ValuedKinds /\ la[i][2] # lb[i][2]

\* The outcome at a deciding position.
DecidedAt(la, lb, i) ==
    IF i > Len(la) THEN -1
    ELSE IF i > Len(lb) THEN 1
    ELSE IF la[i][1] # lb[i][1] THEN (IF la[i][1] < lb[i][1] THEN -1 ELSE 1)
    ELSE IF la[i][1] = SegWord THEN (IF StrLess(la[i][2], lb[i][2]) THEN -1 ELSE 1)
    ELSE IF la[i][2] < lb[i][2] THEN -1 ELSE 1

FirstDecision(la, lb) ==
    LET positions == 1..Max(Len(la), Len(lb))
        deciding  == {i \in positions : Decides(la, lb, i)}
    IN  IF deciding = {} THEN 0
        ELSE DecidedAt(la, lb, CHOOSE i \in deciding : \A j \in deciding : i <= j)

C26_FirstDifferenceDecides ==
    sortCall.op = "compare" =>
        LET a == sortCall.args[1]
            b == sortCall.args[2]
        IN  /\ sortCall.result
                  = FirstDecision(segmentListCache[a], segmentListCache[b])
            /\ a = <<>> => sortCall.result = (IF b = <<>> THEN 0 ELSE -1)
            /\ SegWord < SegDirection /\ SegDirection < SegNumber
            /\ SegNumber < SegSeparator /\ SegSeparator < SegNull

\* "a-b" against "a.b": the separators differ in text and tie, and so do the
\* strings.
C26_Witness ==
    /\ sortCall.op = "compare"
    /\ sortCall.args = << <<"a","-","b">>, <<"a",".","b">> >>
    /\ sortCall.result = 0

\* ---------------------------------------------------------------------------
\* C29: SmartSorter.compare is a consistent ordering: compare(a, a) = 0,
\* compare(a, b) = -compare(b, a), and it is transitive for "not after" and
\* for "equal".
\* ---------------------------------------------------------------------------
InstanceCompare(a, b) == compare(segmentListCache, a, b)

C27_PathsUnique ==
    walkResult.done =>
        \A i, j \in DOMAIN walkResult.pathInfos :
            walkResult.pathInfos[i].path = walkResult.pathInfos[j].path => i = j

(***************************************************************************)
(* layoutList row by row: the call up to its do-while loop, and one action *)
(* per iteration of the loop.  Widths below 1 are among the inputs: the    *)
(* CLI hands --l-list-length to layoutList as it is.                       *)
(***************************************************************************)
ListWidths == ((0 - 1)..MaxWidth) \cup {DefaultWidth}

ListInputs == DistinctSeqs(LayoutPool, MaxInputLen)

\* layoutList(inputPathInfos, { width, longTileNames }) up to the loop
ListCall(inputPathInfos0, width, longTileNames) ==
    /\ listLoop.state = "none"
    /\ listLoop' = [state |-> "rows", input |-> inputPathInfos0,
                    width |-> width, longTileNames |-> longTileNames,
                    pathInfos |-> inputPathInfos0, y |-> 0,
                    tileset |-> <<>>, tiles |-> <<>>, further |-> 0]
    /\ UNCHANGED <<sortVars, layoutVars, walkVars, compositeVars, sequenceVars>>

\* One iteration of do { ... } while (pathInfos.length > 0), and the return
\* that follows the last one.  A loop that ends makes at most one iteration
\* per file (one, without files).  y and tileset are recorded for one
\* iteration more than that; of the iterations that follow, only their
\* number modulo 2 is kept (further), y and the rows they append are not.
ListRow ==
    /\ listLoop.state = "rows"
    /\ LET cols == listColumns(listLoop.pathInfos, listLoop.y, listLoop.width,
                               listLoop.tiles, listLoop.longTileNames)
           tileset1 == Append(listLoop.tileset, cols.row)
           recorded == listLoop.y <= Len(listLoop.input)
       IN  listLoop' = [listLoop EXCEPT
                           !.state = IF Len(cols.pathInfos) > 0 THEN "rows" ELSE "returned",
                           !.pathInfos = cols.pathInfos,
                           !.y = IF recorded THEN listLoop.y + 1 ELSE listLoop.y,
                           !.tileset = IF recorded THEN tileset1 ELSE listLoop.tileset,
                           !.tiles = cols.tiles,
                           !.further = IF recorded THEN 0 ELSE 1 - listLoop.further]
    /\ UNCHANGED <<sortVars, layoutVars, walkVars, compositeVars, sequenceVars>>

ListInit ==
    /\ SortIdle /\ LayoutIdle /\ WalkIdle /\ CompositeIdle /\ ListIdle /\ SequenceIdle

ListNext ==
    \/ \E inputPathInfos0 \in ListInputs, width \in ListWidths,
          longTileNames \in BOOLEAN :
           ListCall(inputPathInfos0, width, longTileNames)
    \/ ListRow

\* The loop runs on as long as it can: nothing else is scheduled.
SpecList == ListInit /\ [][ListNext]_vars /\ WF_vars(ListRow)

\* The row-by-row loop returns what layoutList returns, for widths from 1.
ListLoopAgrees ==
    (listLoop.state = "returned" /\ listLoop.width >= 1) =>
        /\ listLoop.tileset
               = layoutList(listLoop.input, listLoop.width, listLoop.longTileNames).tileset
        /\ listLoop.tiles
               = layoutList(listLoop.input, listLoop.width, listLoop.longTileNames).tiles

\* For widths from 1, every iteration of the loop is recorded.
ListLoopWithinReach ==
    (listLoop.state \in {"rows", "returned"} /\ listLoop.width >= 1) =>
        /\ listLoop.y <= Max(1, Len(listLoop.input))
        /\ listLoop.further = 0

\* For widths below 1, an iteration takes no file off pathInfos.
ListLoopIdles ==
    (listLoop.state = "rows" /\ listLoop.width < 1) =>
        listLoop.pathInfos = listLoop.input

\* ---------------------------------------------------------------------------
\* C28: layoutList terminates and returns a layout for every input list and
\* every width, width 0 and negative widths with a non-empty input included.
\* ---------------------------------------------------------------------------
C28_ListTerminates ==
    (listLoop.state = "rows") ~> (listLoop.state = "returned")

(***************************************************************************)
(* readSequences of the earlier src/sequence.ts: every file of a directory *)
(* is stat'ed and read by a promise of its own, all of them under way at   *)
(* once.  An image is the path of the file it was read from.               *)
(***************************************************************************)
\* The default of readSequences' extensions parameter.
SequenceExtensions == << <<"p","n","g">>, <<"j","p","g">>, <<"j","p","e","g">> >>

\* files.sort(): Array.prototype.sort without a comparison function orders
\* strings by their UTF-16 code units.
insertString(sorted, str) ==
    LET before == {i \in DOMAIN sorted : ~StrLess(str, sorted[i])}
        k == Cardinality(before)
    IN  SubSeq(sorted, 1, k) \o <<str>> \o SubSeq(sorted, k + 1, Len(sorted))

RECURSIVE sortStringsFrom(_, _)
sortStringsFrom(sorted, rest) ==
    IF rest = <<>> THEN sorted
    ELSE sortStringsFrom(insertString(sorted, rest[1]), Tail(rest))

sortStrings(list) == sortStringsFrom(<<>>, list)

\* findSequencesRecursive: the resolved files of dir in the order of the loop
\* that starts their promises.
sequenceFiles(tree, dir) ==
    LET files == sortStrings(tree.dirs[dir])
    IN  [k \in DOMAIN files |-> pathResolve(dir, files[k])]

\* loadSequencesRecursive: extensions.includes(fileExt)
sequenceExtensionIncluded(fileResolved) ==
    stripLeadingDot(pathExtname(fileResolved)) \in Range(SequenceExtensions)

\* A promise of loadSequencesRecursive (or the call of findSequencesRecursive
\* on the root) is fulfilled.  When it was the last of its directory,
\* Promise.all is fulfilled: the directory's sequence is pushed unless it has
\* no images, and the directory's own promise is fulfilled in turn.
RECURSIVE sequenceSettle(_, _, _)
sequenceSettle(st, images, filePath) ==
    LET pc1 == [st.pc EXCEPT ![filePath] = "done"]
    IN  IF filePath = WorkingDirectory
        THEN [pc |-> pc1, sequences |-> st.sequences, returned |-> TRUE]
        ELSE LET dir == pathDirname(filePath)
             IN  IF \A f \in Range(sequenceFiles(seqTree, dir)) : pc1[f] = "done"
                 THEN sequenceSettle(
                          [pc |-> pc1,
                           sequences |->
                               IF images[dir] # <<>>
                               THEN Append(st.sequences,
                                           [name |-> pathRelative(WorkingDirectory, dir),
                                            images |-> images[dir]])
                               ELSE st.sequences,
                           returned |-> FALSE],
                          images, dir)
                 ELSE [pc |-> pc1, sequences |-> st.sequences, returned |-> FALSE]

SequenceStep(st, images) ==
    /\ seqPc' = st.pc
    /\ sequenceList' = st.sequences
    /\ sequencesReturned' = st.returned
    /\ seqImages' = images
    /\ UNCHANGED <<seqTree, sortVars, layoutVars, walkVars, compositeVars, listVars>>

SequenceNow == [pc |-> seqPc, sequences |-> sequenceList, returned |-> FALSE]

\* /w: b/ a/ n.txt      /w/a: 2.png 1.png      /w/b: 1.png
SeqTreeFlat ==
    [ dirs  |-> ( WorkingDirectory :> << <<"b">>, <<"a">>, <<"n",".","t","x","t">> >> ) @@
                ( Abs(<< <<"w">>, <<"a">> >>) :> << Png2, Png1 >> ) @@
                ( Abs(<< <<"w">>, <<"b">> >>) :> << Png1 >> ),
      files |-> { Abs(<< <<"w">>, <<"n",".","t","x","t">> >>),
                  Abs(<< <<"w">>, <<"a">>, Png1 >>),
                  Abs(<< <<"w">>, <<"a">>, Png2 >>),
                  Abs(<< <<"w">>, <<"b">>, Png1 >>) } ]

\* /w: c/ 1.png      /w/c: d/ e/ 1.png      /w/c/d: 1.png      /w/c/e: empty
SeqTreeDeep ==
    [ dirs  |-> ( WorkingDirectory :> << <<"c">>, Png1 >> ) @@
                ( Abs(<< <<"w">>, <<"c">> >>) :> << <<"d">>, <<"e">>, Png1 >> ) @@
                ( Abs(<< <<"w">>, <<"c">>, <<"d">> >>) :> << Png1 >> ) @@
                ( Abs(<< <<"w">>, <<"c">>, <<"e">> >>) :> <<>> ),
      files |-> { Abs(<< <<"w">>, Png1 >>),
                  Abs(<< <<"w">>, <<"c">>, Png1 >>),
                  Abs(<< <<"w">>, <<"c">>, <<"d">>, Png1 >>) } ]

SequenceTrees == {SeqTreeFlat, SeqTreeDeep}

\* readSequences(dir), up to the await of fs.readdir(dir)
ReadSequencesCall ==
    /\ seqPc = <<>>
    /\ seqPc' = (WorkingDirectory :> "readdir")
    /\ seqImages' = <<>>
    /\ sequenceList' = <<>>
    /\ sequencesReturned' = FALSE
    /\ UNCHANGED <<seqTree, sortVars, layoutVars, walkVars, compositeVars, listVars>>

\* findSequencesRecursive(root, dir, ...): fs.readdir(dir) completes, the
\* files are sorted and one promise per file is started.
SequenceReaddirDone(dir) ==
    /\ seqPc[dir] = "readdir"
    /\ LET files  == sequenceFiles(seqTree, dir)
           pc1    == [f \in Range(files) |-> "stat"] @@ [seqPc EXCEPT ![dir] = "join"]
           images == (dir :> <<>>) @@ seqImages
           st     == [pc |-> pc1, sequences |-> sequenceList, returned |-> FALSE]
       IN  IF files = <<>>
           THEN SequenceStep(sequenceSettle(st, images, dir), images)
           ELSE SequenceStep(st, images)

\* loadSequencesRecursive: fs.stat(fileResolved) completes.
SequenceStatDone(fileResolved) ==
    /\ seqPc[fileResolved] = "stat"
    /\ IF isFile(seqTree, fileResolved)
       THEN IF sequenceExtensionIncluded(fileResolved)
            THEN SequenceStep([SequenceNow EXCEPT !.pc[fileResolved] = "read"], seqImages)
            ELSE SequenceStep(sequenceSettle(SequenceNow, seqImages, fileResolved), seqImages)
       ELSE IF isDirectory(seqTree, fileResolved)
            THEN SequenceStep([SequenceNow EXCEPT !.pc[fileResolved] = "readdir"], seqImages)
            ELSE SequenceStep(sequenceSettle(SequenceNow, seqImages, fileResolved), seqImages)

\* loadSequencesRecursive: fs.readFile(fileResolved) completes and the image
\* is pushed on the images of the directory's sequence.
SequenceReadDone(fileResolved) ==
    /\ seqPc[fileResolved] = "read"
    /\ LET images == [seqImages EXCEPT ![pathDirname(fileResolved)] = Append(@, fileResolved)]
       IN  SequenceStep(sequenceSettle(SequenceNow, images, fileResolved), images)

SequenceInit ==
    /\ seqTree \in SequenceTrees
    /\ seqPc = <<>> /\ seqImages = <<>> /\ sequenceList = <<>>
    /\ sequencesReturned = FALSE
    /\ SortIdle /\ LayoutIdle /\ WalkIdle /\ CompositeIdle /\ ListIdle

SequenceNext ==
    \/ ReadSequencesCall
    \/ \E dir \in DOMAIN seqPc : SequenceReaddirDone(dir)
    \/ \E fileResolved \in DOMAIN seqPc : SequenceStatDone(fileResolved)
    \/ \E fileResolved \in DOMAIN seqPc : SequenceReadDone(fileResolved)

SpecSequence == SequenceInit /\ [][SequenceNext]_vars

\* ---------------------------------------------------------------------------
\* C30: in readSequences of src/sequence.ts the images of every Sequence are
\* in the sorted file-name order of their directory, and the order of the
\* sequences in the returned list is fixed by the directory tree, for every
\* order in which the concurrent stat and readFile calls complete.
\* ---------------------------------------------------------------------------
SequenceDir(sequence) ==
    IF sequence.name = <<>> THEN WorkingDirectory
    ELSE pathResolve(WorkingDirectory, sequence.name)

\* The image files of a directory in sorted file-name order.
SortedImages(dir) ==
    SelectSeq(sequenceFiles(seqTree, dir),
              LAMBDA f : isFile(seqTree, f) /\ sequenceExtensionIncluded(f))

\* The directories that have images, in the order their sequences are pushed
\* when every call completes in the order it was made.
RECURSIVE DirsInOrder(_)
RECURSIVE DirsInOrderAll(_)
DirsInOrder(dir) ==
    DirsInOrderAll(SelectSeq(sequenceFiles(seqTree, dir),
                             LAMBDA f : isDirectory(seqTree, f)))
        \o (IF SortedImages(dir) # <<>> THEN <<dir>> ELSE <<>>)
DirsInOrderAll(dirs) ==
    IF dirs = <<>> THEN <<>> ELSE DirsInOrder(dirs[1]) \o DirsInOrderAll(Tail(dirs))

ImagesInNameOrder ==
    \A i \in DOMAIN sequenceList :
        sequenceList[i].images = SortedImages(SequenceDir(sequenceList[i]))

SequencesInTreeOrder ==
    [i \in DOMAIN sequenceList |-> SequenceDir(sequenceList[i])]
        = DirsInOrder(WorkingDirectory)

C30_SequencesOrdered ==
    sequencesReturned => (ImagesInNameOrder /\ SequencesInTreeOrder)


=============================================================================
